---- MODULE Spec2Model ----
(***************************************************************************)
(* Hearth: the shared state document, its merge and defaults reconciler,  *)
(* pairing and bearer tokens, and the server-sent-events registry.        *)
(*                                                                         *)
(* JavaScript objects are functions from key strings to values; a key     *)
(* that is absent from the object is absent from the DOMAIN.  Arrays are  *)
(* sequences.  A JavaScript Set is a sequence without repetitions, in     *)
(* insertion order (the order `for ... of` visits it).                     *)
(***************************************************************************)
EXTENDS Integers, Sequences, FiniteSets, TLC

VARIABLES
  now,        \* the wall clock: [s |-> seconds, ms |-> milliseconds within the second]
  settings,   \* the settings table: key -> value
  stored,     \* the state table: <<>> (no row) or <<doc>> (the row with id = 1)
  clients,    \* createSseManager: the Map, as its entries [deviceId, set] in insertion order
  sets,       \* the Set<Client> objects ever created, by identity: Seq(Seq(connection))
  conns,      \* per connection: [status, set] (set: the Set its close handler captured)
  timers,     \* connections whose heartbeat interval is live (not cleared)
  received,   \* per connection: what was written to reply.raw, in order
  req,        \* the request the last operation served
  response,   \* the response to it
  bcast,      \* the documents the last operation handed to sse.broadcastAll, in order
  pre,        \* the state table and the settings as they were before the last operation
  server,     \* what boot fixed for the process: [tokenSecret, deviceId, google, supplied]
              \* (google: GOOGLE_PHOTOS_CLIENT_ID and _SECRET are set; supplied: the
              \* TOKEN_SECRET of the environment, <<>> when it is not set)
  issued,     \* the tokens signToken has handed out
  popups,     \* the popups table: its rows in rowid order
  flights,    \* the requests and runs being served at once, each at one of its awaits
  display     \* the display app in one browser: its React state and its EventSource

vars == <<now, settings, stored, clients, sets, conns, timers, received,
          req, response, bcast, pre, server, issued, popups, flights, display>>

sseVars == <<clients, sets, conns, timers, received>>

(***************************************************************************)
(* Bounds of the model.                                                    *)
(***************************************************************************)
MaxMs == 1          \* millisecond ticks explored within one second
MaxConns == 2       \* connections that ever subscribe
MaxReceived == 2    \* events written to one connection
MaxJumps == 2       \* long advances of the wall clock
MaxTokens == 1      \* tokens a control client is handed

(***************************************************************************)
(* Object helpers: spread, nullish coalescing on a key.                    *)
(***************************************************************************)
Has(o, k) == k \in DOMAIN o

\* a spread in which the earlier object wins
SpreadLeftWins(a, b) ==
  [k \in DOMAIN a \cup DOMAIN b |-> IF k \in DOMAIN a THEN a[k] ELSE b[k]]

\* { ...a, ...b }
Spread(a, b) == [k \in (DOMAIN a) \cup (DOMAIN b) |-> IF k \in DOMAIN b THEN b[k] ELSE a[k]]

\* o[k] ?? d
Nz(o, k, d) == IF k \in DOMAIN o THEN o[k] ELSE d

\* the object o restricted to the keys in ks (zod strips unrecognised keys)
Pick(o, ks) == [k \in (DOMAIN o) \cap ks |-> o[k]]

Empty == [k \in {} |-> TRUE]

Range(s) == {s[i] : i \in DOMAIN s}

(***************************************************************************)
(* The clock.  Date.now() is now.s * 1000 + now.ms; toISOString() keeps   *)
(* the second and the millisecond, and ISO strings of the same length     *)
(* order as their instants do.                                             *)
(***************************************************************************)
toISOString(t) == [iso |-> <<t.s, t.ms>>]

IsoLess(a, b) ==
  \/ a.iso[1] < b.iso[1]
  \/ a.iso[1] = b.iso[1] /\ a.iso[2] < b.iso[2]

\* Math.floor(Date.now() / 1000)
NumericDate(t) == t.s

\* the instant boot runs, and the instant the server starts to listen
Epoch == [s |-> 0, ms |-> 0]
Listening == [s |-> 1, ms |-> 0]

(***************************************************************************)
(* createDefaultState (storage/seed).  crypto.randomUUID() ids and the    *)
(* formatted dates are opaque strings.                                     *)
(***************************************************************************)
DefaultModules == [calendar |-> TRUE, photos |-> TRUE, weather |-> TRUE]

DefaultCustomTheme ==
  [bg |-> "#0B0F14", surface |-> "#111827", surface2 |-> "#0F172A",
   cardOpacity |-> 1,
   calendarDay |-> "#0F172A", calendarDayMuted |-> "rgba(15, 23, 42, 0.6)",
   calendarToday |-> "#111827", border |-> "rgba(255, 255, 255, 0.1)",
   text |-> "rgba(255, 255, 255, 0.92)", muted |-> "rgba(255, 255, 255, 0.65)",
   faint |-> "rgba(255, 255, 255, 0.45)", accent |-> "#2DD4BF",
   buttonText |-> "rgba(255, 255, 255, 0.92)", buttonTextOnAccent |-> "#0B0F14",
   backgroundImage |-> "", backgroundPosition |-> "center"]

DefaultLayout ==
  [mode |-> "classic", sidebar |-> "right",
   modules |-> [calendar |-> [column |-> "left", span |-> 2, order |-> 1],
                photos |-> [column |-> "right", span |-> 1, order |-> 2],
                note |-> [column |-> "right", span |-> 1, order |-> 3]]]

DefaultPhotos == <<"svg:Hearth", "svg:Family", "svg:Moments">>

createDefaultState(t) ==
  [theme |-> "dark",
   modules |-> DefaultModules,
   calendarView |-> "week",
   calendarTimeFormat |-> "12h",
   calendarNote |-> "",
   tempUnit |-> "f",
   weatherForecastEnabled |-> FALSE,
   qrEnabled |-> TRUE,
   noteEnabled |-> TRUE,
   noteTitle |-> "Family Note",
   note |-> "Dinner is at 6:30. Movie night after!",
   events |-> << [id |-> "uuid-1", title |-> "School pickup", date |-> "today+0",
                  allDay |-> TRUE, source |-> "manual"],
                 [id |-> "uuid-2", title |-> "Soccer practice", date |-> "today+1",
                  allDay |-> TRUE, source |-> "manual"],
                 [id |-> "uuid-3", title |-> "Family dinner", date |-> "today+2",
                  allDay |-> TRUE, source |-> "manual"] >>,
   photos |-> DefaultPhotos,
   photosGoogle |-> DefaultPhotos,
   photosLocal |-> <<>>,
   photoSources |-> [google |-> TRUE, local |-> TRUE],
   photoShuffle |-> TRUE,
   photoFocus |-> "center",
   photoTiles |-> 1,
   photoTransitionMs |-> 12000,
   offSchedule |-> [enabled |-> FALSE, start |-> "22:00", end |-> "06:00"],
   customTheme |-> DefaultCustomTheme,
   weather |-> [location |-> "Home", summary |-> "Clear and calm", temp |-> "72F",
                code |-> 0],
   forecast |-> <<>>,
   layout |-> DefaultLayout,
   updatedAt |-> toISOString(t)]

(***************************************************************************)
(* ensureStateDefaults (storage/seed).  state.events.map(...) raises a     *)
(* TypeError when the stored document has no `events`.                     *)
(***************************************************************************)
ensureStateDefaultsThrows(state) == ~Has(state, "events")

ensureStateDefaults(state, t) ==
  LET defaults == createDefaultState(t)
      stateLayout == Nz(state, "layout", Empty)
  IN Spread(Spread(defaults, state),
       [modules |-> Spread(defaults.modules, Nz(state, "modules", Empty)),
        events |-> [i \in DOMAIN state.events |->
                      Spread(state.events[i],
                             [source |-> Nz(state.events[i], "source", "manual")])],
        photosGoogle |-> IF Has(state, "photosGoogle") THEN state.photosGoogle
                         ELSE Nz(state, "photos", defaults.photosGoogle),
        photosLocal |-> Nz(state, "photosLocal", <<>>),
        photoSources |-> Nz(state, "photoSources", defaults.photoSources),
        photoShuffle |-> Nz(state, "photoShuffle", defaults.photoShuffle),
        photoFocus |-> Nz(state, "photoFocus", defaults.photoFocus),
        photoTiles |-> Nz(state, "photoTiles", defaults.photoTiles),
        photoTransitionMs |-> Nz(state, "photoTransitionMs", defaults.photoTransitionMs),
        offSchedule |-> Spread(defaults.offSchedule, Nz(state, "offSchedule", Empty)),
        customTheme |-> Spread(defaults.customTheme, Nz(state, "customTheme", Empty)),
        layout |-> Spread(Spread(defaults.layout, stateLayout),
                     [modules |-> Spread(defaults.layout.modules,
                                         Nz(stateLayout, "modules", Empty))])])

(***************************************************************************)
(* The zod schemas of @hearth/shared.  z.object() strips the keys it does  *)
(* not name, fills `.default(...)` values in, and fails when a key it      *)
(* requires is missing or a value is outside its enumeration.              *)
(***************************************************************************)
ModuleKeys == {"calendar", "photos", "weather"}
WeatherKeys == {"location", "summary", "temp", "code"}
PhotoSourceKeys == {"google", "local"}
PhotoFocusValues == {"none", "center", "top", "bottom", "left", "right",
                     "top-left", "top-right", "bottom-left", "bottom-right"}
CustomThemeRequired == {"bg", "surface", "surface2", "calendarDay", "calendarDayMuted",
                        "calendarToday", "border", "text", "muted", "faint", "accent"}
CustomThemeOptional == {"backgroundImage", "backgroundPosition", "buttonText",
                        "buttonTextOnAccent"}
LayoutModuleKeys == {"calendar", "photos", "note"}
ModuleLayoutKeys == {"column", "span", "order"}
StateUpdateKeys == {"theme", "modules", "calendarView", "tempUnit",
                    "weatherForecastEnabled", "qrEnabled", "noteTitle", "note", "events",
                    "photos", "photosGoogle", "photosLocal", "photoSources",
                    "photoShuffle", "photoFocus", "customTheme", "weather", "forecast",
                    "layout"}

\* z.string().min(1) on each key of ks that o holds
NonEmptyStrings(o, ks) == \A k \in (DOMAIN o) \cap ks : o[k] # ""

photoSourcesSchemaOk(o) == PhotoSourceKeys \subseteq DOMAIN o

customThemeSchemaOk(o) ==
  /\ CustomThemeRequired \subseteq DOMAIN o
  /\ NonEmptyStrings(o, CustomThemeRequired \cup {"buttonText", "buttonTextOnAccent"})
  /\ Has(o, "cardOpacity") => (o.cardOpacity >= 0 /\ o.cardOpacity <= 1)
  /\ Has(o, "backgroundPosition") => o.backgroundPosition \in PhotoFocusValues

\* cardOpacity: z.number().min(0).max(1).default(1)
customThemeSchemaParse(o) ==
  Spread([cardOpacity |-> 1],
         Pick(o, CustomThemeRequired \cup CustomThemeOptional \cup {"cardOpacity"}))

moduleLayoutOk(m) ==
  /\ ModuleLayoutKeys \subseteq DOMAIN m
  /\ m.column \in {"left", "center", "right"}
  /\ m.span \in {1, 2, 3}

layoutSchemaOk(l) ==
  /\ {"mode", "sidebar", "modules"} \subseteq DOMAIN l
  /\ l.mode = "classic"
  /\ l.sidebar \in {"right", "left"}
  /\ LayoutModuleKeys \subseteq DOMAIN l.modules
  /\ \A k \in LayoutModuleKeys : moduleLayoutOk(l.modules[k])

layoutSchemaParse(l) ==
  [mode |-> l.mode, sidebar |-> l.sidebar,
   modules |-> [k \in LayoutModuleKeys |-> Pick(l.modules[k], ModuleLayoutKeys)]]

calendarEventSchemaOk(e) ==
  /\ {"id", "title", "date", "allDay"} \subseteq DOMAIN e
  /\ e.title # "" /\ e.date # ""
  /\ Has(e, "source") => e.source \in {"manual", "ics"}

\* source: z.enum(["manual", "ics"]).default("manual")
calendarEventSchemaParse(e) ==
  Spread([source |-> "manual"], Pick(e, {"id", "title", "date", "allDay", "source"}))

stateUpdateSchemaOk(raw) ==
  /\ Has(raw, "theme") => raw.theme \in {"dark", "light", "custom"}
  /\ Has(raw, "calendarView") => raw.calendarView \in {"week", "month"}
  /\ Has(raw, "tempUnit") => raw.tempUnit \in {"f", "c"}
  /\ Has(raw, "photoFocus") => raw.photoFocus \in PhotoFocusValues
  /\ Has(raw, "weather") => NonEmptyStrings(raw.weather, {"location", "summary", "temp"})
  /\ Has(raw, "events") => \A i \in DOMAIN raw.events : calendarEventSchemaOk(raw.events[i])
  /\ Has(raw, "photoSources") => photoSourcesSchemaOk(raw.photoSources)
  /\ Has(raw, "customTheme") => customThemeSchemaOk(raw.customTheme)
  /\ Has(raw, "layout") => layoutSchemaOk(raw.layout)

stateUpdateSchemaParse(raw) ==
  [k \in (DOMAIN raw) \cap StateUpdateKeys |->
     CASE k = "modules" -> Pick(raw.modules, ModuleKeys)
       [] k = "weather" -> Pick(raw.weather, WeatherKeys)
       [] k = "photoSources" -> Pick(raw.photoSources, PhotoSourceKeys)
       [] k = "customTheme" -> customThemeSchemaParse(raw.customTheme)
       [] k = "layout" -> layoutSchemaParse(raw.layout)
       [] k = "events" -> [i \in DOMAIN raw.events |-> calendarEventSchemaParse(raw.events[i])]
       [] OTHER -> raw[k]]

toggleModuleSchemaOk(body) ==
  /\ {"module", "enabled"} \subseteq DOMAIN body
  /\ body.module \in ModuleKeys

layoutUpdateSchemaOk(body) == Has(body, "layout") /\ layoutSchemaOk(body.layout)

\* pairingSchema: code: z.string().min(4)
PairingMinLen == 4

pairingSchemaOk(body) == Has(body, "code") /\ Len(body.code) >= PairingMinLen

(***************************************************************************)
(* mergeState (routes/control).                                            *)
(***************************************************************************)
\* the shallow overwrite: `modules` and `weather` taken whole from the partial
mergeStateShallow(current, partial, t) ==
  Spread(Spread(current, partial),
    [layout |-> Nz(partial, "layout", current.layout),
     updatedAt |-> toISOString(t)])

mergeState(current, partial, t) ==
  Spread(Spread(current, partial),
    [modules |-> Spread(current.modules, Nz(partial, "modules", Empty)),
     weather |-> Spread(current.weather, Nz(partial, "weather", Empty)),
     layout |-> Nz(partial, "layout", current.layout),
     updatedAt |-> toISOString(t)])

(***************************************************************************)
(* Tokens (auth/token): jwt.sign(payload, secret, {expiresIn: "30d"}) and *)
(* jwt.verify(token, secret).  A token is the payload sealed with the      *)
(* secret that signed it; verify raises unless the text is a token, the    *)
(* signature is the secret's, and the clock is before `exp`.               *)
(***************************************************************************)
ThirtyDays == 2592000
OneDay == ThirtyDays \div 30

\* signing with a secret of its own, not the one verification is given
signTokenOwnSecret(secret, t) ==
  [kind |-> "jwt", sub |-> "admin", secret |-> "signing-secret",
   iat |-> NumericDate(t), exp |-> NumericDate(t) + ThirtyDays]

signToken(secret, t) ==
  [kind |-> "jwt", sub |-> "admin", secret |-> secret,
   iat |-> NumericDate(t), exp |-> NumericDate(t) + ThirtyDays]

\* verification that never looks at `exp`
verifyTokenIgnoringExpiry(secret, token, t) ==
  /\ token.kind = "jwt"
  /\ token.secret = secret

verifyTokenOk(secret, token, t) ==
  /\ token.kind = "jwt"
  /\ token.secret = secret
  /\ NumericDate(t) < token.exp

\* the Authorization header is <<>> (absent) or <<token>> ("Bearer " stripped)
requireAuth(secret, authHeader, t) ==
  /\ authHeader # <<>>
  /\ verifyTokenOk(secret, authHeader[1], t)

requireAuthFromRequest(secret, authHeader, queryToken, t) ==
  \/ requireAuth(secret, authHeader, t)
  \/ queryToken # <<>> /\ verifyTokenOk(secret, queryToken[1], t)

Garbage == [kind |-> "garbage", sub |-> "", secret |-> "", iat |-> 0, exp |-> 0]

NoAuth == <<>>

(***************************************************************************)
(* The settings and state tables (storage/db).                             *)
(***************************************************************************)
getSetting(key) == IF key \in DOMAIN settings THEN <<settings[key]>> ELSE <<>>

setSetting(tbl, key, value) == Spread(tbl, [k \in {key} |-> value])

loadState == stored

saveState(doc) == <<doc>>

(***************************************************************************)
(* The popups table (storage/popups).  A nullable column or field holds    *)
(* <<>> (NULL / null / undefined) or <<value>>.                            *)
(***************************************************************************)
\* one row of the table -> Popup
mapPopupRow(row) ==
  [id |-> row.id, message |-> row.message, position |-> row.position, mode |-> row.mode,
   priority |-> IF row.priority = <<>> THEN "success" ELSE row.priority[1],
   durationSeconds |-> row.duration_seconds,
   visible |-> row.visible # 0,
   createdAt |-> row.created_at, updatedAt |-> row.updated_at,
   expiresAt |-> row.expires_at]

\* the values insertPopup binds, as a row
popupRow(popup) ==
  [id |-> popup.id, message |-> popup.message, position |-> popup.position,
   mode |-> popup.mode, priority |-> <<popup.priority>>,
   duration_seconds |-> popup.durationSeconds,
   visible |-> IF popup.visible THEN 1 ELSE 0,
   created_at |-> popup.createdAt, updated_at |-> popup.updatedAt,
   expires_at |-> popup.expiresAt]

\* id is the PRIMARY KEY: INSERT of an id already stored raises
insertPopupRaises(tbl, popup) == \E i \in DOMAIN tbl : tbl[i].id = popup.id

insertPopup(tbl, popup) == Append(tbl, popupRow(popup))

\* an UPDATE that writes created_at as well
updatePopupAllColumns(tbl, popup) ==
  [i \in DOMAIN tbl |-> IF tbl[i].id = popup.id THEN popupRow(popup) ELSE tbl[i]]

\* UPDATE popups SET message, position, mode, priority, duration_seconds, visible,
\* updated_at, expires_at WHERE id = ?
updatePopup(tbl, popup) ==
  [i \in DOMAIN tbl |->
     IF tbl[i].id = popup.id
     THEN [popupRow(popup) EXCEPT !.created_at = tbl[i].created_at]
     ELSE tbl[i]]

\* a clear that deletes the rows
clearPopupsDeleting(tbl, nowIso) == <<>>

\* UPDATE popups SET visible = 0, updated_at = ?, expires_at = ?
clearPopups(tbl, nowIso) ==
  [i \in DOMAIN tbl |->
     [tbl[i] EXCEPT !.visible = 0, !.updated_at = nowIso, !.expires_at = <<nowIso>>]]

\* ORDER BY created_at ASC (rows of equal created_at stay in rowid order)
RECURSIVE orderByCreatedAt(_)
orderByCreatedAt(rows) ==
  IF rows = <<>> THEN <<>>
  ELSE LET first == CHOOSE i \in DOMAIN rows :
                      \A j \in DOMAIN rows :
                        /\ ~IsoLess(rows[j].created_at, rows[i].created_at)
                        /\ (j < i => IsoLess(rows[j].created_at, rows[i].created_at)
                                      \/ IsoLess(rows[i].created_at, rows[j].created_at))
           rest == [k \in 1..(Len(rows) - 1) |-> IF k < first THEN rows[k] ELSE rows[k + 1]]
       IN <<rows[first]>> \o orderByCreatedAt(rest)

\* a listing that looks at `visible` only
listVisiblePopups(tbl, nowIso) ==
  LET rows == SelectSeq(tbl, LAMBDA r : r.visible = 1)
      sorted == orderByCreatedAt(rows)
  IN [i \in DOMAIN sorted |-> mapPopupRow(sorted[i])]

\* SELECT * FROM popups WHERE visible = 1 AND (expires_at IS NULL OR expires_at > ?)
\* ORDER BY created_at ASC
listActivePopups(tbl, nowIso) ==
  LET rows == SelectSeq(tbl, LAMBDA r :
                  /\ r.visible = 1
                  /\ (r.expires_at = <<>> \/ IsoLess(nowIso, r.expires_at[1])))
      sorted == orderByCreatedAt(rows)
  IN [i \in DOMAIN sorted |-> mapPopupRow(sorted[i])]

(***************************************************************************)
(* createSseManager (realtime/sse).  A connection is "new" before it       *)
(* subscribes, "open" while its socket is up, "broken" once the socket is  *)
(* gone and the request's "close" event has not been emitted yet, and      *)
(* "closed" after the close handler ran.  reply.raw.write delivers on an   *)
(* open connection; on a broken one it delivers nothing and either returns *)
(* or raises.                                                              *)
(***************************************************************************)
Conns == 1..MaxConns

WriteOutcomes ==
  {o \in [Conns -> {"ok", "fail", "raise"}] :
     \A c \in Conns : (o[c] = "ok") <=> (conns[c].status # "broken")}

\* clients.get(deviceId): <<>> or <<identity of the Set>>
clientsGet(deviceId) ==
  LET hits == {i \in DOMAIN clients : clients[i].deviceId = deviceId}
  IN IF hits = {} THEN <<>> ELSE <<clients[CHOOSE i \in hits : TRUE].set>>

\* clients.delete(deviceId)
clientsDelete(deviceId) == SelectSeq(clients, LAMBDA e : e.deviceId # deviceId)

\* set.delete(client)
setDelete(set, c) == SelectSeq(set, LAMBDA x : x # c)

\* the connections `for (const client of set)` visits before a write raises,
\* the raising one included
Visited(order, o) ==
  LET raising == {i \in DOMAIN order : o[order[i]] = "raise"}
      stop == IF raising = {} THEN Len(order)
              ELSE CHOOSE i \in raising : \A j \in raising : i <= j
  IN SubSeq(order, 1, stop)

Raises(order, o) == \E i \in DOMAIN order : o[order[i]] = "raise"

\* broadcast(deviceId, state) / broadcastEvent(deviceId, event, data), the writes of
\* one pass over `order`: received after it
writeAll(rcv, order, o, msg) ==
  [c \in Conns |->
     IF c \in Range(Visited(order, o)) /\ o[c] = "ok" THEN Append(rcv[c], msg) ELSE rcv[c]]

broadcastOrder(deviceId) ==
  IF clientsGet(deviceId) = <<>> THEN <<>> ELSE sets[clientsGet(deviceId)[1]]

RECURSIVE Concat(_)
Concat(ss) == IF ss = <<>> THEN <<>> ELSE Head(ss) \o Concat(Tail(ss))

\* broadcastAll(state): every key of the Map in insertion order, each Set in its own
broadcastAllOrder == Concat([i \in DOMAIN clients |-> sets[clients[i].set]])

StateEvent(doc) == [event |-> "state", data |-> doc]

(***************************************************************************)
(* Operations.  Each serves one request to completion.                     *)
(***************************************************************************)
Snapshot == [stored |-> stored, settings |-> settings, clients |-> clients,
             sets |-> sets, timers |-> timers, received |-> received, issued |-> issued,
             now |-> now, popups |-> popups]

Reply(status, body) == [status |-> status, body |-> body]

\* a handler that returns before it writes anything
Refuse(request, status, error) ==
  /\ req' = request
  /\ response' = Reply(status, [error |-> error])
  /\ bcast' = <<>>
  /\ pre' = Snapshot
  /\ UNCHANGED <<now, settings, stored, sseVars, server, flights, display, popups, issued>>

\* await saveState(db, next); sse.broadcastAll(next); return body
\* (a write that raises inside broadcastAll escapes the handler: Fastify answers 500)
SaveAndBroadcast(request, tbl, next, body, o) ==
  /\ req' = request
  /\ settings' = tbl
  /\ stored' = saveState(next)
  /\ received' = writeAll(received, broadcastAllOrder, o, StateEvent(next))
  /\ bcast' = <<next>>
  /\ response' = IF Raises(broadcastAllOrder, o)
                 THEN Reply(500, [error |-> "Internal Server Error"])
                 ELSE Reply(200, body)
  /\ pre' = Snapshot
  /\ UNCHANGED <<now, clients, sets, conns, timers, server, flights, display, popups, issued>>

\* a handler that changes settings only
SettingsOnly(request, tbl, status, body) ==
  /\ req' = request
  /\ settings' = tbl
  /\ response' = Reply(status, body)
  /\ bcast' = <<>>
  /\ pre' = Snapshot
  /\ UNCHANGED <<now, stored, sseVars, server, flights, display, popups, issued>>

\* const currentRaw = await loadState(db);
\* const current = currentRaw ? ensureStateDefaults(currentRaw) : null;
StateMissing == loadState = <<>>

Current == ensureStateDefaults(loadState[1], now)

OpState == "POST /api/control/state"
OpToggle == "POST /api/control/modules/toggle"
OpLayout == "POST /api/control/layout"
OpGetState == "GET /api/state"
OpWeatherRun == "weather sync run"

\* a handler that merges and saves before it looks at what validation said
PostStateMergesFirst(auth, raw) ==
  LET request == [op |-> "POST /api/control/state", auth |-> auth, body |-> raw]
      next == mergeState(Current, Pick(raw, StateUpdateKeys), now)
  IN IF ~requireAuth(server.tokenSecret, auth, now)
       THEN Refuse(request, 401, "Unauthorized")
     ELSE IF StateMissing
       THEN Refuse(request, 500, "State missing")
     ELSE IF ~stateUpdateSchemaOk(raw)
       THEN /\ req' = request
            /\ stored' = saveState(next)
            /\ response' = Reply(500, [error |-> "ZodError"])
            /\ bcast' = <<>>
            /\ pre' = Snapshot
            /\ UNCHANGED <<now, settings, sseVars, server, flights, display, popups, issued>>
     ELSE \E o \in WriteOutcomes : SaveAndBroadcast(request, settings, next, next, o)

\* POST /api/control/state
PostState(auth, raw) ==
  LET request == [op |-> "POST /api/control/state", auth |-> auth, body |-> raw]
      parsed == stateUpdateSchemaParse(raw)
      next == mergeState(Current, parsed, now)
  IN IF ~requireAuth(server.tokenSecret, auth, now)
       THEN Refuse(request, 401, "Unauthorized")
     ELSE IF ~stateUpdateSchemaOk(raw)
       THEN Refuse(request, 500, "ZodError")
     ELSE IF StateMissing
       THEN Refuse(request, 500, "State missing")
     ELSE \E o \in WriteOutcomes : SaveAndBroadcast(request, settings, next, next, o)

\* POST /api/control/modules/toggle
PostToggle(auth, body) ==
  LET request == [op |-> "POST /api/control/modules/toggle", auth |-> auth, body |-> body]
      current == Current
      next == mergeState(current,
                [modules |-> Spread(current.modules,
                                    [k \in {body.module} |-> body.enabled])], now)
  IN IF ~requireAuth(server.tokenSecret, auth, now)
       THEN Refuse(request, 401, "Unauthorized")
     ELSE IF ~toggleModuleSchemaOk(body)
       THEN Refuse(request, 500, "ZodError")
     ELSE IF StateMissing
       THEN Refuse(request, 500, "State missing")
     ELSE \E o \in WriteOutcomes : SaveAndBroadcast(request, settings, next, next, o)

\* POST /api/control/layout
PostLayout(auth, body) ==
  LET request == [op |-> "POST /api/control/layout", auth |-> auth, body |-> body]
      next == mergeState(Current, [layout |-> layoutSchemaParse(body.layout)], now)
  IN IF ~requireAuth(server.tokenSecret, auth, now)
       THEN Refuse(request, 401, "Unauthorized")
     ELSE IF ~layoutUpdateSchemaOk(body)
       THEN Refuse(request, 500, "ZodError")
     ELSE IF StateMissing
       THEN Refuse(request, 500, "State missing")
     ELSE \E o \in WriteOutcomes : SaveAndBroadcast(request, settings, next, next, o)

(***************************************************************************)
(* The calendar and weather syncs.  What the external fetch answered is   *)
(* an input: [ok |-> FALSE] when it failed, else what was parsed from it.  *)
(***************************************************************************)
\* syncCalendarFromIcs (calendar/sync), after the fetch: state is the loaded document,
\* events what parseIcsEvents returned (each with source "ics")
syncCalendarNext(state, events, t) ==
  LET manualEvents == SelectSeq(state.events,
                                LAMBDA e : Has(e, "source") /\ e.source = "manual")
  IN Spread(state, [events |-> manualEvents \o events, updatedAt |-> toISOString(t)])

\* buildWeatherInfo: the temperature carries the unit of the stored document
buildWeatherInfo(report, unit) ==
  [location |-> report.location, summary |-> report.summary,
   temp |-> IF unit = "f" THEN report.tempF ELSE report.tempC, code |-> report.code]

\* syncWeather (weather/sync), after the fetches
syncWeatherNext(state, report, t) ==
  Spread(state, [weather |-> buildWeatherInfo(report, Nz(state, "tempUnit", "f")),
                 forecast |-> report.forecast,
                 updatedAt |-> toISOString(t)])

IcsFeedKey == "calendarIcsUrl"
WeatherQueryKey == "weatherQuery"
RefreshTokenKey == "googlePhotosRefreshToken"
LocalPhotosDirKey == "localPhotosDir"

\* GET /api/control/calendar/settings
GetCalendarSettings(auth) ==
  LET request == [op |-> "GET /api/control/calendar/settings", auth |-> auth]
      url == getSetting(IcsFeedKey)
  IN IF ~requireAuth(server.tokenSecret, auth, now)
       THEN Refuse(request, 401, "Unauthorized")
     ELSE SettingsOnly(request, settings, 200,
                       [icsUrl |-> IF url = <<>> THEN "" ELSE url[1]])

\* POST /api/control/calendar/settings
PostCalendarSettings(auth, body, feed) ==
  LET request == [op |-> "POST /api/control/calendar/settings", auth |-> auth, body |-> body]
      url == Nz(body, "icsUrl", "")
      tbl == IF url # "" THEN setSetting(settings, IcsFeedKey, url) ELSE settings
  IN IF ~requireAuth(server.tokenSecret, auth, now)
       THEN Refuse(request, 401, "Unauthorized")
     ELSE IF ~(Nz(body, "syncNow", FALSE) /\ url # "")
       THEN SettingsOnly(request, tbl, 200, [ok |-> TRUE])
     ELSE IF ~feed.ok
       THEN SettingsOnly(request, tbl, 500, [error |-> "Failed to fetch ICS"])
     ELSE IF StateMissing
       THEN SettingsOnly(request, tbl, 200, [ok |-> TRUE])
     ELSE \E o \in WriteOutcomes :
            SaveAndBroadcast(request, tbl, syncCalendarNext(loadState[1], feed.events, now),
                             [ok |-> TRUE], o)

\* POST /api/control/weather/settings
PostWeatherSettings(auth, body, report) ==
  LET request == [op |-> "POST /api/control/weather/settings", auth |-> auth, body |-> body]
      query == Nz(body, "query", "")
      tbl == IF query # "" THEN setSetting(settings, WeatherQueryKey, query) ELSE settings
  IN IF ~requireAuth(server.tokenSecret, auth, now)
       THEN Refuse(request, 401, "Unauthorized")
     ELSE IF ~(Nz(body, "syncNow", FALSE) /\ query # "")
       THEN SettingsOnly(request, tbl, 200, [ok |-> TRUE])
     ELSE IF StateMissing
       THEN SettingsOnly(request, tbl, 200, [ok |-> TRUE])
     ELSE IF ~report.ok
       THEN SettingsOnly(request, tbl, 500, [error |-> "Geocoding failed"])
     ELSE \E o \in WriteOutcomes :
            SaveAndBroadcast(request, tbl, syncWeatherNext(loadState[1], report, now),
                             [ok |-> TRUE], o)

\* POST /api/control/photos/google/disconnect
GoogleDisconnect(auth) ==
  LET request == [op |-> "POST /api/control/photos/google/disconnect", auth |-> auth]
  IN IF ~requireAuth(server.tokenSecret, auth, now)
       THEN Refuse(request, 401, "Unauthorized")
     ELSE SettingsOnly(request, setSetting(settings, RefreshTokenKey, ""), 200, [ok |-> TRUE])

\* POST /api/control/photos/local/settings
PostLocalPhotosSettings(auth, body) ==
  LET request == [op |-> "POST /api/control/photos/local/settings", auth |-> auth,
                  body |-> body]
  IN IF ~requireAuth(server.tokenSecret, auth, now)
       THEN Refuse(request, 401, "Unauthorized")
     ELSE SettingsOnly(request,
                       setSetting(settings, LocalPhotosDirKey, Nz(body, "directory", "")),
                       200, [ok |-> TRUE])

\* scanLocalPhotos, after the directory was listed: urls are the images found
scanLocalNext(state, urls, t) ==
  LET photosGoogle == IF Has(state, "photosGoogle") THEN state.photosGoogle
                      ELSE Nz(state, "photos", <<>>)
      sources == Nz(state, "photoSources", [google |-> TRUE, local |-> TRUE])
      merged == (IF Nz(sources, "google", FALSE) THEN photosGoogle ELSE <<>>)
                \o (IF Nz(sources, "local", FALSE) THEN urls ELSE <<>>)
  IN Spread(state, [photos |-> IF merged # <<>> THEN merged ELSE urls,
                    photosGoogle |-> photosGoogle,
                    photosLocal |-> urls,
                    updatedAt |-> toISOString(t)])

OpLocalScan == "POST /api/control/photos/local/scan"

\* POST /api/control/photos/local/scan; listing is what the file system answers for
\* the directory: whether it exists and the image URLs found in it
PostLocalScan(auth, body, listing) ==
  LET request == [op |-> OpLocalScan, auth |-> auth, body |-> body]
      given == Nz(body, "directory", "")
      saved == getSetting(LocalPhotosDirKey)
      directory == IF given # "" THEN given ELSE IF saved = <<>> THEN "" ELSE saved[1]
      tbl == setSetting(settings, LocalPhotosDirKey, directory)
  IN IF ~requireAuth(server.tokenSecret, auth, now)
       THEN Refuse(request, 401, "Unauthorized")
     ELSE IF directory = ""
       THEN Refuse(request, 400, "Directory required")
     ELSE IF ~listing.exists
       THEN SettingsOnly(request, tbl, 500, [error |-> "Local photos directory not found"])
     ELSE IF StateMissing
       THEN SettingsOnly(request, tbl, 200, [ok |-> TRUE])
     ELSE \E o \in WriteOutcomes :
            SaveAndBroadcast(request, tbl, scanLocalNext(loadState[1], listing.urls, now),
                             [ok |-> TRUE], o)

\* POST /api/control/theme/background; saveThemeBackground raises on a data URL it
\* cannot read
BackgroundUrl == "/api/theme/background?file=custom-bg.png&v=now"

PostThemeBackground(auth, body) ==
  LET request == [op |-> "POST /api/control/theme/background", auth |-> auth, body |-> body]
      current == Current
      cleared == mergeState(current,
                   [customTheme |-> Spread(current.customTheme, [backgroundImage |-> ""])],
                   now)
      set == mergeState(current,
               [customTheme |-> Spread(current.customTheme,
                                       [backgroundImage |-> BackgroundUrl])], now)
  IN IF ~requireAuth(server.tokenSecret, auth, now)
       THEN Refuse(request, 401, "Unauthorized")
     ELSE IF Nz(body, "clear", FALSE)
       THEN IF StateMissing THEN Refuse(request, 500, "State missing")
            ELSE \E o \in WriteOutcomes :
                   SaveAndBroadcast(request, settings, cleared, [url |-> ""], o)
     ELSE IF Nz(body, "dataUrl", "") = ""
       THEN Refuse(request, 400, "Missing dataUrl")
     ELSE IF StateMissing
       THEN Refuse(request, 500, "State missing")
     ELSE IF body.dataUrl # "data:image/png;base64,AAAA"
       THEN Refuse(request, 500, "Invalid data URL")
     ELSE \E o \in WriteOutcomes :
            SaveAndBroadcast(request, settings, set, [url |-> BackgroundUrl], o)

\* GET /api/control/photos/google/auth: the token may come as ?token=
GetGoogleAuth(auth, queryToken) ==
  LET request == [op |-> "GET /api/control/photos/google/auth", auth |-> auth,
                  token |-> queryToken]
  IN IF ~requireAuthFromRequest(server.tokenSecret, auth, queryToken, now)
       THEN Refuse(request, 401, "Unauthorized")
     ELSE IF ~server.google
       THEN Refuse(request, 400, "Google Photos client ID missing")
     ELSE SettingsOnly(request, settings, 302, [location |-> "accounts.google.com"])

\* GET /api/control/photos/google/callback; exchange is what exchangeCodeForToken
\* answered: [ok |-> FALSE] (it raised) or [ok |-> TRUE, refresh_token |-> "" or a token]
GetGoogleCallback(query, exchange) ==
  LET request == [op |-> "GET /api/control/photos/google/callback", auth |-> NoAuth,
                  token |-> Nz(query, "state", <<>>), query |-> query]
  IN IF Nz(query, "code", "") = "" \/ ~server.google
       THEN Refuse(request, 400, "Missing OAuth configuration")
     ELSE IF ~exchange.ok
       THEN Refuse(request, 500, "Failed to exchange code")
     ELSE IF exchange.refresh_token = ""
       THEN Refuse(request, 400, "No refresh token returned")
     ELSE SettingsOnly(request,
                       setSetting(settings, RefreshTokenKey, exchange.refresh_token),
                       IF Has(query, "state") THEN 200 ELSE 302,
                       [location |-> "/control/"])

\* POST /api/control/pair
PostPair(body) ==
  LET request == [op |-> "POST /api/control/pair", auth |-> NoAuth, body |-> body]
      storedCode == getSetting("pairingCode")
      token == signToken(server.tokenSecret, now)
  IN IF ~pairingSchemaOk(body)
       THEN Refuse(request, 500, "ZodError")
     ELSE IF storedCode = <<>> \/ storedCode[1] # body.code
       THEN Refuse(request, 401, "Invalid code")
     ELSE /\ Cardinality(issued \cup {token}) <= MaxTokens
          /\ req' = request
          /\ response' = Reply(200, [token |-> token])
          /\ issued' = issued \cup {token}
          /\ bcast' = <<>>
          /\ pre' = Snapshot
          /\ UNCHANGED <<now, settings, stored, sseVars, server, flights, display, popups>>

\* the wall clock moves on by d seconds
Advance(d) ==
  /\ now.s + d <= Listening.s + MaxJumps * (ThirtyDays + OneDay)
  /\ now' = [now EXCEPT !.s = @ + d]
  /\ UNCHANGED <<settings, stored, sseVars, req, response, bcast, pre, server, flights, display, popups, issued>>

(***************************************************************************)
(* The event stream: GET /api/display/:deviceId/events, and what happens   *)
(* to a connection afterwards.                                             *)
(***************************************************************************)
\* a handler that never looks at :deviceId
paramsAnyDevice(deviceId) == TRUE

\* params.deviceId !== deviceId, negated
paramsMatchDevice(deviceId) == deviceId = server.deviceId

\* addClient(deviceId, request, reply) for connection c
addClient(c, deviceId) ==
  LET found == clientsGet(deviceId)
      set == IF found = <<>> THEN Len(sets) + 1 ELSE found[1]
  IN [received |-> [received EXCEPT ![c] = Append(@, ":connected")],
      timers |-> timers \cup {c},
      sets |-> IF found = <<>> THEN Append(sets, <<c>>)
               ELSE [sets EXCEPT ![set] = Append(@, c)],
      clients |-> IF found = <<>> THEN Append(clients, [deviceId |-> deviceId, set |-> set])
                  ELSE clients,
      conns |-> [conns EXCEPT ![c] = [status |-> "open", set |-> set]]]

\* a close handler that forgets clearInterval(heartbeat)
closeHandlerKeepsTimer(c) ==
  LET emptied == setDelete(sets[conns[c].set], c)
  IN [timers |-> timers,
      sets |-> [sets EXCEPT ![conns[c].set] = emptied],
      clients |-> IF Len(emptied) = 0 THEN clientsDelete(server.deviceId) ELSE clients]

\* a close handler that leaves the Map alone
closeHandlerKeepsEntry(c) ==
  [timers |-> timers \ {c},
   sets |-> [sets EXCEPT ![conns[c].set] = setDelete(@, c)],
   clients |-> clients]

\* request.raw.on("close", ...) of connection c; the closure holds the Set it was added to
closeHandler(c) ==
  LET emptied == setDelete(sets[conns[c].set], c)
  IN [timers |-> timers \ {c},
      sets |-> [sets EXCEPT ![conns[c].set] = emptied],
      clients |-> IF Len(emptied) = 0 THEN clientsDelete(server.deviceId) ELSE clients]

OpEvents == "GET /api/display/:deviceId/events"

Subscribe(c, deviceId) ==
  LET request == [op |-> OpEvents, conn |-> c, deviceId |-> deviceId]
      added == addClient(c, server.deviceId)
  IN /\ conns[c].status = "new"
     /\ IF ~paramsMatchDevice(deviceId)
          THEN Refuse(request, 404, "Invalid device")
        ELSE /\ req' = request
             /\ response' = Reply(200, [stream |-> "text/event-stream"])
             /\ received' = added.received
             /\ timers' = added.timers
             /\ sets' = added.sets
             /\ clients' = added.clients
             /\ conns' = added.conns
             /\ bcast' = <<>>
             /\ pre' = Snapshot
             /\ UNCHANGED <<now, settings, stored, server, flights, display, popups, issued>>

\* the socket of an open connection goes away; writes to it fail from here on
Drop(c) ==
  /\ conns[c].status = "open"
  /\ conns' = [conns EXCEPT ![c].status = "broken"]
  /\ req' = [op |-> "drop", conn |-> c]
  /\ bcast' = <<>>
  /\ pre' = Snapshot
  /\ UNCHANGED <<now, settings, stored, clients, sets, timers, received, response,
                 server, flights, display, popups, issued>>

\* the request's "close" event is emitted
CloseEvent(c) ==
  /\ conns[c].status = "broken"
  /\ conns' = [conns EXCEPT ![c].status = "closed"]
  /\ timers' = closeHandler(c).timers
  /\ sets' = closeHandler(c).sets
  /\ clients' = closeHandler(c).clients
  /\ req' = [op |-> "close", conn |-> c]
  /\ bcast' = <<>>
  /\ pre' = Snapshot
  /\ UNCHANGED <<now, settings, stored, received, response, server, flights, display, popups, issued>>

\* the setInterval callback of connection c fires: reply.raw.write(":heartbeat\n\n").
\* The keepalive is a comment line, not an event; `received` keeps the events, and
\* the write is recorded as the last step taken.
Heartbeat(c) ==
  /\ c \in timers
  /\ req' = [op |-> "heartbeat", conn |-> c, delivered |-> (conns[c].status = "open")]
  /\ bcast' = <<>>
  /\ pre' = Snapshot
  /\ UNCHANGED <<now, settings, stored, sseVars, response, server, flights, display, popups, issued>>

(***************************************************************************)
(* The popup store's operations.  The store functions are called with a    *)
(* Popup the caller built; GET /api/popups lists the active ones.          *)
(***************************************************************************)
StoreCall(request, tbl, raised) ==
  /\ req' = request
  /\ popups' = tbl
  /\ response' = Reply(0, [raised |-> raised])
  /\ bcast' = <<>>
  /\ pre' = Snapshot
  /\ UNCHANGED <<now, settings, stored, sseVars, server, flights, display, issued>>

InsertPopup(popup) ==
  LET request == [op |-> "insertPopup", popup |-> popup]
  IN IF insertPopupRaises(popups, popup)
       THEN StoreCall(request, popups, TRUE)
     ELSE StoreCall(request, insertPopup(popups, popup), FALSE)

UpdatePopup(popup) ==
  StoreCall([op |-> "updatePopup", popup |-> popup], updatePopup(popups, popup), FALSE)

ClearPopups ==
  StoreCall([op |-> "clearPopups"], clearPopups(popups, toISOString(now)), FALSE)

OpPopups == "GET /api/popups"

\* GET /api/popups
GetPopups ==
  /\ req' = [op |-> OpPopups]
  /\ response' = Reply(200, [popups |-> listActivePopups(popups, toISOString(now))])
  /\ bcast' = <<>>
  /\ pre' = Snapshot
  /\ UNCHANGED <<now, settings, stored, sseVars, server, flights, display, issued, popups>>

(***************************************************************************)
(* The schedulers: startCalendarSync and startWeatherSync call run() once  *)
(* and then every 15 minutes; nothing ever clears the intervals.           *)
(***************************************************************************)
\* a run whose body is not inside try/catch: what it raises escapes
rethrown(raised) == raised

\* try { ... } catch (err) { console.error(...) }: whether what the body raised
\* escapes the run
escapes(raised) == FALSE

OpCalendarRun == "calendar sync run"

\* what a run did, besides what it stored and broadcast
Ran(fetched, raised) == Reply(0, [fetched |-> fetched, escaped |-> escapes(raised)])

Idle(request, fetched, raised) ==
  /\ req' = request
  /\ response' = Ran(fetched, raised)
  /\ bcast' = <<>>
  /\ pre' = Snapshot
  /\ UNCHANGED <<now, settings, stored, sseVars, server, flights, display, issued, popups>>

\* const next = await sync...(db, source); if (next) onUpdate(next);
\* onUpdate is sse.broadcastAll, inside the try block as well
SyncedAndBroadcast(request, next, o) ==
  /\ req' = request
  /\ stored' = saveState(next)
  /\ received' = writeAll(received, broadcastAllOrder, o, StateEvent(next))
  /\ bcast' = <<next>>
  /\ response' = Ran(TRUE, Raises(broadcastAllOrder, o))
  /\ pre' = Snapshot
  /\ UNCHANGED <<now, settings, clients, sets, conns, timers, server, flights, display, issued, popups>>

\* run() of startCalendarSync; feed is what fetching the stored URL answers
CalendarSyncRun(feed) ==
  LET url == getSetting(IcsFeedKey)
      configured == url # <<>> /\ url[1] # ""
      request == [op |-> OpCalendarRun, configured |-> configured, feed |-> feed]
  IN IF ~configured THEN Idle(request, FALSE, FALSE)
     ELSE IF ~feed.ok THEN Idle(request, TRUE, TRUE)
     ELSE IF StateMissing THEN Idle(request, TRUE, FALSE)
     ELSE IF ~Has(loadState[1], "events") THEN Idle(request, TRUE, TRUE)
     ELSE \E o \in WriteOutcomes :
            SyncedAndBroadcast(request, syncCalendarNext(loadState[1], feed.events, now), o)

\* run() of startWeatherSync; report is what geocoding and the forecast fetch answer
WeatherSyncRun(report) ==
  LET query == getSetting(WeatherQueryKey)
      configured == query # <<>> /\ query[1] # ""
      request == [op |-> OpWeatherRun, configured |-> configured, feed |-> report]
  IN IF ~configured THEN Idle(request, FALSE, FALSE)
     ELSE IF StateMissing THEN Idle(request, FALSE, FALSE)
     ELSE IF ~report.ok THEN Idle(request, TRUE, TRUE)
     ELSE \E o \in WriteOutcomes :
            SyncedAndBroadcast(request, syncWeatherNext(loadState[1], report, now), o)

\* GET /api/state.  JSON.stringify(state) !== JSON.stringify(normalized) decides
\* whether normalized is saved; saving a document equal to the stored one changes
\* nothing, so the save is unconditional here.
GetState ==
  LET request == [op |-> OpGetState]
      seeded == createDefaultState(now)
  IN IF StateMissing
       THEN /\ req' = request
            /\ stored' = saveState(seeded)
            /\ response' = Reply(200, [state |-> seeded, deviceId |-> server.deviceId])
            /\ bcast' = <<>>
            /\ pre' = Snapshot
            /\ UNCHANGED <<now, settings, sseVars, server, flights, display, issued, popups>>
     ELSE IF ensureStateDefaultsThrows(loadState[1])
       THEN Refuse(request, 500, "TypeError")
     ELSE /\ req' = request
          /\ stored' = saveState(Current)
          /\ response' = Reply(200, [state |-> Current, deviceId |-> server.deviceId])
          /\ bcast' = <<>>
          /\ pre' = Snapshot
          /\ UNCHANGED <<now, settings, sseVars, server, flights, display, issued, popups>>

\* one millisecond passes
TickMs ==
  /\ now.ms < MaxMs
  /\ now' = [now EXCEPT !.ms = @ + 1]
  /\ UNCHANGED <<settings, stored, sseVars, req, response, bcast, pre, server, flights, display, popups, issued>>

(***************************************************************************)
(* Requests served at once.  A handler runs until its next await, and      *)
(* nothing orders the handlers' database statements or continuations, so   *)
(* another handler's come in between.  A flight is at "loading" until its  *)
(* SELECT has run and the handler has gone on to its next await, at        *)
(* "fetching" while the weather service is asked, at "saving" until its    *)
(* upsert has run, at "saved" until the continuation after the upsert has  *)
(* run, and then "done".                                                   *)
(***************************************************************************)
FlightIds == {"f1", "f2"}

NoFlight == [stage |-> "idle", op |-> "", from |-> "", auth |-> NoAuth, body |-> Empty,
             cur |-> <<>>, next |-> <<>>, answer |-> Reply(0, Empty)]

NoDisplay == [fromUrl |-> <<>>, paired |-> <<>>, localStorage |-> <<>>, remembered |-> <<>>,
              deviceId |-> <<>>, error |-> <<>>, state |-> <<>>, source |-> <<>>,
              made |-> 0, seen |-> 0, fetch |-> "none", inbox |-> Reply(0, Empty)]

\* fetch("/api/state").then(...) of the display: the response reaches the browser
Deliver(fl) ==
  IF fl.from = "display" /\ fl.stage = "done"
  THEN [display EXCEPT !.fetch = "arrived", !.inbox = fl.answer]
  ELSE display

\* one step of flight f, which leaves it as fl
Step(f, fl) ==
  /\ flights' = [flights EXCEPT ![f] = fl]
  /\ display' = Deliver(fl)
  /\ req' = [op |-> "step", flight |-> f, of |-> fl.op, stage |-> fl.stage]
  /\ response' = fl.answer
  /\ pre' = Snapshot

Ended(fl, status, body) == [fl EXCEPT !.stage = "done", !.answer = Reply(status, body)]

\* POST /api/control/state or /modules/toggle arrives: the handler up to
\* `await loadState(db)`
Accept(f, op, auth, body) ==
  LET fl == [NoFlight EXCEPT !.op = op, !.from = "control", !.auth = auth, !.body = body]
      valid == IF op = OpState THEN stateUpdateSchemaOk(body) ELSE toggleModuleSchemaOk(body)
  IN /\ flights[f].stage = "idle"
     /\ op \in {OpState, OpToggle}
     /\ Step(f, IF ~requireAuth(server.tokenSecret, auth, now)
                  THEN Ended(fl, 401, [error |-> "Unauthorized"])
                ELSE IF ~valid THEN Ended(fl, 500, [error |-> "ZodError"])
                ELSE [fl EXCEPT !.stage = "loading"])
     /\ bcast' = <<>>
     /\ UNCHANGED <<now, settings, stored, sseVars, server, issued, popups>>

\* GET /api/state arrives, from the display app or from another client
AcceptGetState(f, from) ==
  /\ flights[f].stage = "idle"
  /\ from = "display" => display.fetch = "wanted"
  /\ flights' = [flights EXCEPT ![f] = [NoFlight EXCEPT !.op = OpGetState, !.from = from,
                                                       !.stage = "loading"]]
  /\ display' = IF from = "display" THEN [display EXCEPT !.fetch = "sent"] ELSE display
  /\ req' = [op |-> "step", flight |-> f, of |-> OpGetState, stage |-> "loading"]
  /\ response' = Reply(0, Empty)
  /\ bcast' = <<>>
  /\ pre' = Snapshot
  /\ UNCHANGED <<now, settings, stored, sseVars, server, issued, popups>>

\* run() of startWeatherSync starts: up to `await loadState(db)` in syncWeather
AcceptWeatherRun(f) ==
  LET query == getSetting(WeatherQueryKey)
      fl == [NoFlight EXCEPT !.op = OpWeatherRun, !.from = "scheduler"]
  IN /\ flights[f].stage = "idle"
     /\ Step(f, IF query = <<>> \/ query[1] = ""
                  THEN Ended(fl, 0, [fetched |-> FALSE, escaped |-> escapes(FALSE)])
                ELSE [fl EXCEPT !.stage = "loading"])
     /\ bcast' = <<>>
     /\ UNCHANGED <<now, settings, stored, sseVars, server, issued, popups>>

\* the document a control write saves, computed from the one it loaded
writeNext(fl, doc, t) ==
  LET current == ensureStateDefaults(doc, t)
  IN IF fl.op = OpState THEN mergeState(current, stateUpdateSchemaParse(fl.body), t)
     ELSE mergeState(current,
            [modules |-> Spread(current.modules,
                                [k \in {fl.body.module} |-> fl.body.enabled])], t)

\* the SELECT of loadState runs and the handler goes on to its next await.
\* (GET /api/state compares JSON.stringify(state) with JSON.stringify(normalized);
\* the order of keys, which the comparison sees, is not modelled.)
Load(f) ==
  LET fl == flights[f]
      missing == loadState = <<>>
      doc == loadState[1]
      seen == [fl EXCEPT !.cur = loadState]
      after ==
        CASE fl.op \in {OpState, OpToggle} ->
               IF missing THEN Ended(fl, 500, [error |-> "State missing"])
               ELSE IF ensureStateDefaultsThrows(doc) THEN Ended(fl, 500, [error |-> "TypeError"])
               ELSE [seen EXCEPT !.stage = "saving", !.next = <<writeNext(fl, doc, now)>>]
          [] fl.op = OpWeatherRun ->
               IF missing THEN Ended(fl, 0, [fetched |-> FALSE, escaped |-> escapes(FALSE)])
               ELSE [seen EXCEPT !.stage = "fetching"]
          [] fl.op = OpGetState ->
               IF missing
                 THEN [seen EXCEPT !.stage = "saving", !.next = <<createDefaultState(now)>>]
               ELSE IF ensureStateDefaultsThrows(doc) THEN Ended(fl, 500, [error |-> "TypeError"])
               ELSE IF ensureStateDefaults(doc, now) # doc
                 THEN [seen EXCEPT !.stage = "saving", !.next = <<ensureStateDefaults(doc, now)>>]
               ELSE Ended(seen, 200, [state |-> ensureStateDefaults(doc, now),
                                      deviceId |-> server.deviceId])
  IN /\ fl.stage = "loading"
     /\ Step(f, after)
     /\ bcast' = <<>>
     /\ UNCHANGED <<now, settings, stored, sseVars, server, issued, popups>>

\* geocodeLocation and fetchWeatherBundle have answered: syncWeather up to
\* `await saveState(db, next)`; report is what they answered
Fetched(f, report) ==
  LET fl == flights[f]
  IN /\ fl.stage = "fetching"
     /\ Step(f, IF ~report.ok
                  THEN Ended(fl, 0, [fetched |-> TRUE, escaped |-> escapes(TRUE)])
                ELSE [fl EXCEPT !.stage = "saving",
                                !.next = <<syncWeatherNext(fl.cur[1], report, now)>>])
     /\ bcast' = <<>>
     /\ UNCHANGED <<now, settings, stored, sseVars, server, issued, popups>>

\* the upsert of saveState runs
Save(f) ==
  /\ flights[f].stage = "saving"
  /\ stored' = saveState(flights[f].next[1])
  /\ Step(f, [flights[f] EXCEPT !.stage = "saved"])
  /\ bcast' = <<>>
  /\ UNCHANGED <<now, settings, sseVars, server, issued, popups>>

\* the continuation after `await saveState(...)`: a control write and a sync hand the
\* document to sse.broadcastAll, and the request is answered
Finish(f) ==
  LET fl == flights[f]
      next == fl.next[1]
  IN /\ fl.stage = "saved"
     /\ IF fl.op = OpGetState
          THEN /\ Step(f, Ended(fl, 200, [state |-> next, deviceId |-> server.deviceId]))
               /\ bcast' = <<>>
               /\ UNCHANGED received
        ELSE \E o \in WriteOutcomes :
               /\ received' = writeAll(received, broadcastAllOrder, o, StateEvent(next))
               /\ bcast' = <<next>>
               /\ Step(f, IF fl.op = OpWeatherRun
                            THEN Ended(fl, 0, [fetched |-> TRUE,
                                               escaped |-> escapes(Raises(broadcastAllOrder, o))])
                          ELSE IF Raises(broadcastAllOrder, o)
                            THEN Ended(fl, 500, [error |-> "Internal Server Error"])
                          ELSE Ended(fl, 200, next))
     /\ UNCHANGED <<now, settings, stored, clients, sets, conns, timers, server, issued, popups>>

(***************************************************************************)
(* The display app (apps/display): the React state of App, local storage  *)
(* and the EventSource of subscribeToState.  A state update is followed by *)
(* the render and the effects it leads to.                                 *)
(***************************************************************************)
\* const displayDeviceId = deviceIdFromUrl ?? pairedDeviceId
displayDeviceId(d) == IF d.fromUrl # <<>> THEN d.fromUrl ELSE d.paired

\* what App renders
Screen(d) ==
  IF displayDeviceId(d) = <<>> THEN "pair"
  ELSE IF d.error # <<>> THEN "error"
  ELSE "display"

\* useEffect(..., [displayDeviceId, error]) after the update from old to d: when a
\* dependency changed, the cleanup closes the EventSource, and the effect opens a
\* new one unless there is no identity or an error
subscribeEffect(old, d) ==
  IF displayDeviceId(old) = displayDeviceId(d) /\ old.error = d.error THEN d
  ELSE IF displayDeviceId(d) = <<>> \/ d.error # <<>> THEN [d EXCEPT !.source = <<>>]
  ELSE [d EXCEPT !.source = <<[id |-> displayDeviceId(d)[1], conn |-> d.made + 1]>>,
                 !.made = d.made + 1, !.seen = 0]

\* a step of the display app, which leaves it as d
DisplayStep(name, d) ==
  /\ d.made <= MaxConns
  /\ display' = d
  /\ req' = [op |-> name]
  /\ bcast' = <<>>
  /\ pre' = Snapshot
  /\ UNCHANGED <<now, settings, stored, sseVars, response, server, issued, popups, flights>>

\* the page is opened with ?device=fromUrl (or without), local storage holding what an
\* earlier visit left: the first render and its effects
Mount(fromUrl, localStorage) ==
  LET d == [NoDisplay EXCEPT !.fromUrl = fromUrl, !.localStorage = localStorage,
                             !.paired = localStorage, !.fetch = "wanted",
                             !.remembered = IF fromUrl # <<>> THEN fromUrl ELSE localStorage]
  IN /\ display.fetch = "none"
     /\ DisplayStep("mount", subscribeEffect(NoDisplay, d))

\* the .then / .catch of fetch("/api/state")
DisplayFetched ==
  LET r == display.inbox
      loaded == [display EXCEPT !.state = <<r.body.state>>, !.deviceId = <<r.body.deviceId>>]
      afterUrl ==
        IF display.fromUrl # <<>> /\ display.fromUrl[1] # r.body.deviceId
        THEN [loaded EXCEPT !.error =
                <<"This display URL does not match the registered device.">>]
        ELSE loaded
      afterStored ==
        IF display.fromUrl = <<>> /\ display.paired # <<>> /\ display.paired[1] # r.body.deviceId
        THEN [afterUrl EXCEPT !.localStorage = <<>>, !.paired = <<>>,
                              !.error = <<"Stored display pairing no longer matches this server.">>]
        ELSE afterUrl
      failed == [display EXCEPT !.error = <<"Unable to reach Hearth server.">>]
      updated == IF r.status = 200 THEN afterStored ELSE failed
  IN /\ display.fetch = "arrived"
     /\ DisplayStep("fetched", [subscribeEffect(display, updated) EXCEPT !.fetch = "done"])

\* handlePairSubmit with the pairing code typed in as the server shows it
DisplayPair ==
  LET updated == [display EXCEPT !.paired = display.deviceId,
                                 !.localStorage = display.deviceId]
  IN /\ display.fetch # "none"
     /\ displayDeviceId(display) = <<>>
     /\ display.deviceId # <<>>
     /\ DisplayStep("pair", subscribeEffect(display, updated))

\* the EventSource hands over the next thing the server wrote: the first is the
\* ":connected" comment, which no listener sees; the others are `state` events
DisplayOnState ==
  LET c == display.source[1].conn
      item == received[c][display.seen + 1]
      read == [display EXCEPT !.seen = @ + 1]
  IN /\ display.source # <<>>
     /\ display.seen < Len(received[c])
     /\ DisplayStep("event", IF display.seen + 1 = 1 THEN read
                             ELSE [read EXCEPT !.state = <<item.data>>])

\* the request of the display's EventSource reaches the server
DisplaySubscribe ==
  /\ display.source # <<>>
  /\ Subscribe(display.source[1].conn, display.source[1].id)

(***************************************************************************)
(* Boot (server/src/index.ts) over an empty store: the pairing code, the   *)
(* device identity and the token secret are generated and kept as          *)
(* settings, the state document is seeded.                                 *)
(***************************************************************************)
\* generatePairingCode(): six characters of PAIRING_CHARS
PairingCode == <<"K", "7", "M", "P", "2", "Q">>

BootSettings == [pairingCode |-> PairingCode, deviceId |-> "device-1",
                 tokenSecret |-> "secret-1"]

\* the process after boot, the state table holding tbl
Booted(tbl) ==
  /\ now = Listening
  /\ settings = BootSettings
  /\ stored = tbl
  /\ clients = <<>>
  /\ sets = <<>>
  /\ conns = [c \in Conns |-> [status |-> "new", set |-> 0]]
  /\ timers = {}
  /\ received = [c \in Conns |-> <<>>]
  /\ req = [op |-> "boot", supplied |-> <<>>]
  /\ response = Reply(0, Empty)
  /\ bcast = <<>>
  /\ pre = [stored |-> <<>>, settings |-> Empty, clients |-> <<>>, sets |-> <<>>,
            timers |-> {}, received |-> [c \in Conns |-> <<>>], issued |-> {},
            now |-> Epoch, popups |-> <<>>]
  /\ server = [tokenSecret |-> BootSettings.tokenSecret, deviceId |-> BootSettings.deviceId,
               google |-> TRUE, supplied |-> <<>>]
  /\ issued = {}
  /\ popups = <<>>
  /\ flights = [f \in FlightIds |-> NoFlight]
  /\ display = NoDisplay

\* first boot: no state row, so boot seeds the default document
Init == Booted(saveState(createDefaultState(Epoch)))

(***************************************************************************)
(* A later boot of the server over the store an earlier process left.  The *)
(* process is new: no connection of the old one survives, the registry and *)
(* the timers start empty.  generatePairingCode() and crypto.randomUUID()  *)
(* give values that differ from one call to the next.                      *)
(***************************************************************************)
GeneratedCodes == {PairingCode, <<"Z", "8", "N", "R", "4", "T">>}
GeneratedIds == {"device-1", "device-2"}
GeneratedSecrets == {"secret-1", "secret-3"}

\* a boot that writes the setting whether or not the store has it
bootSettingAlways(tbl, key, fresh) == setSetting(tbl, key, fresh)

\* let v = await getSetting(db, key); if (!v) { v = fresh; await setSetting(db, key, v); }
\* (the empty string is falsy; the pairing code is a sequence of characters)
bootSetting(tbl, key, fresh) ==
  LET blank == IF key = "pairingCode" THEN <<>> ELSE ""
  IN IF key \in DOMAIN tbl /\ tbl[key] # blank THEN tbl
     ELSE setSetting(tbl, key, fresh)

\* env.TOKEN_SECRET || crypto.randomUUID()
freshSecret(supplied, uuid) == IF supplied # <<>> /\ supplied[1] # "" THEN supplied[1] ELSE uuid

\* the top level of index.ts, up to fastify.listen; supplied is env.TOKEN_SECRET
Boot(supplied) ==
  \E code \in GeneratedCodes, id \in GeneratedIds, uuid \in GeneratedSecrets :
    LET tbl1 == bootSetting(settings, "pairingCode", code)
        tbl2 == bootSetting(tbl1, "deviceId", id)
        tbl3 == bootSetting(tbl2, "tokenSecret", freshSecret(supplied, uuid))
    IN /\ settings' = tbl3
       /\ stored' = IF loadState = <<>> THEN saveState(createDefaultState(now)) ELSE stored
       /\ server' = [tokenSecret |-> tbl3.tokenSecret, deviceId |-> tbl3.deviceId,
                     google |-> server.google, supplied |-> supplied]
       /\ clients' = <<>>
       /\ sets' = <<>>
       /\ timers' = {}
       /\ conns' = [c \in Conns |-> IF conns[c].status = "new" THEN conns[c]
                                    ELSE [status |-> "closed", set |-> 0]]
       /\ req' = [op |-> "boot", supplied |-> supplied]
       /\ response' = Reply(0, Empty)
       /\ bcast' = <<>>
       /\ pre' = Snapshot
       /\ flights' = [f \in FlightIds |-> NoFlight]
       /\ UNCHANGED <<now, received, issued, popups, display>>

(***************************************************************************)
(* Requests explored.                                                      *)
(***************************************************************************)
\* a token the server signed at boot time
ValidAuth == <<signToken(server.tokenSecret, Epoch)>>

\* a token the server signed thirty days before boot
ExpiredAuth == <<signToken(server.tokenSecret, [s |-> 0 - ThirtyDays, ms |-> 0])>>

\* a token signed with another secret
ForgedAuth == <<signToken("secret-2", Epoch)>>

GarbageAuth == <<Garbage>>

ThemeRequired ==
  [bg |-> "#FFFFFF", surface |-> "#F8FAFC", surface2 |-> "#F1F5F9",
   calendarDay |-> "#F1F5F9", calendarDayMuted |-> "#E2E8F0",
   calendarToday |-> "#F8FAFC", border |-> "#CBD5E1", text |-> "#0F172A",
   muted |-> "#475569", faint |-> "#94A3B8", accent |-> "#0EA5E9"]

ThemeWithImage ==
  Spread(ThemeRequired, [backgroundImage |-> "/api/theme/background?file=custom-bg.png",
                         cardOpacity |-> 0])

LayoutLeft ==
  [mode |-> "classic", sidebar |-> "left",
   modules |-> [calendar |-> [column |-> "center", span |-> 2, order |-> 2],
                photos |-> [column |-> "left", span |-> 1, order |-> 1],
                note |-> [column |-> "left", span |-> 1, order |-> 3, height |-> 2]]]

RawUpdates ==
  << Empty,
     [note |-> "Dinner at 6"],
     [weather |-> [temp |-> "50F"]],
     [modules |-> [photos |-> FALSE]],
     [customTheme |-> ThemeRequired],
     [customTheme |-> ThemeWithImage],
     [layout |-> LayoutLeft] >>

ToggleBodies == {[module |-> "calendar", enabled |-> e] : e \in BOOLEAN}

LayoutBodies == << [layout |-> LayoutLeft], [layout |-> DefaultLayout] >>

(***************************************************************************)
(* Spec: the control writes on the state document, one at a time, by a    *)
(* paired control client.                                                  *)
(***************************************************************************)
Next ==
  \/ TickMs
  \/ \E i \in DOMAIN RawUpdates : PostState(ValidAuth, RawUpdates[i])
  \/ \E b \in ToggleBodies : PostToggle(ValidAuth, b)
  \/ \E i \in DOMAIN LayoutBodies : PostLayout(ValidAuth, LayoutBodies[i])

Spec == Init /\ [][Next]_vars

(***************************************************************************)
(* Claims on the merge (Spec).                                             *)
(***************************************************************************)
\* the last operation was `op` and it answered 200
Succeeded(op) == req.op = op /\ response.status = 200

\* the document stored before the last operation, the one stored after it
Before == pre.stored[1]
After == stored[1]

\* the sub-fields of o[obj] (none when o has no obj)
Sub(o, obj) == DOMAIN Nz(o, obj, Empty)

\* C1: after a successful POST /api/control/state, for `modules` and `weather`, every
\* sub-field the validated partial supplies has the supplied value in the document
\* produced, and every other sub-field the stored document had keeps its value.
C1_MergeKeepsSiblings ==
  Succeeded(OpState) =>
    LET P == stateUpdateSchemaParse(req.body)
    IN \A obj \in {"modules", "weather"} :
         /\ \A k \in Sub(P, obj) : response.body[obj][k] = P[obj][k]
         /\ \A k \in Sub(Before, obj) \ Sub(P, obj) :
              /\ k \in Sub(response.body, obj)
              /\ response.body[obj][k] = Before[obj][k]
         /\ After[obj] = response.body[obj]

C1_Witness ==
  /\ Succeeded(OpState)
  /\ Sub(req.body, "weather") = {"temp"}
  /\ Before.weather.temp = "72F"
  /\ After.weather.temp = "50F"
  /\ After.weather.summary = "Clear and calm"

\* C2: after a successful POST /api/control/state or /api/control/layout that supplies
\* photoSources, customTheme or layout, every sub-field of that object which the
\* request does not supply keeps the value stored before the write (for layout: at
\* the top of the object and inside each layout.modules entry).
C2_NestedObjectsMerged ==
  (Succeeded(OpState) \/ Succeeded(OpLayout)) =>
    /\ \A obj \in {"photoSources", "customTheme", "layout"} :
         Has(req.body, obj) =>
           \A k \in Sub(Before, obj) \ Sub(req.body, obj) :
             /\ k \in Sub(After, obj)
             /\ After[obj][k] = Before[obj][k]
    /\ Has(req.body, "layout") =>
         \A m \in LayoutModuleKeys :
           \A k \in (DOMAIN Before.layout.modules[m]) \ (DOMAIN req.body.layout.modules[m]) :
             /\ k \in DOMAIN After.layout.modules[m]
             /\ After.layout.modules[m][k] = Before.layout.modules[m][k]

\* C3: a successful POST /api/control/state changes only the top-level fields of the
\* validated partial and updatedAt, and POST /api/control/modules/toggle changes only
\* modules[module] and updatedAt: every other field of the stored document is there
\* afterwards with the value it had.
C3_WriteFrame ==
  /\ Succeeded(OpState) =>
       \A f \in (DOMAIN Before) \ ((DOMAIN stateUpdateSchemaParse(req.body)) \cup {"updatedAt"}) :
         f \in DOMAIN After /\ After[f] = Before[f]
  /\ Succeeded(OpToggle) =>
       /\ \A f \in (DOMAIN Before) \ {"modules", "updatedAt"} :
            f \in DOMAIN After /\ After[f] = Before[f]
       /\ \A k \in (DOMAIN Before.modules) \ {req.body.module} :
            k \in DOMAIN After.modules /\ After.modules[k] = Before.modules[k]

\* C4: every successful state write stores an updatedAt strictly later than the one
\* of the document it was applied to.
C4_UpdatedAtAdvances ==
  (Succeeded(OpState) \/ Succeeded(OpToggle) \/ Succeeded(OpLayout)) =>
    IsoLess(Before.updatedAt, After.updatedAt)

(***************************************************************************)
(* SpecControl: every control endpoint, with and without a valid token.    *)
(***************************************************************************)
BadAuths == <<NoAuth, GarbageAuth, ExpiredAuth, ForgedAuth>>

IcsEvent == [id |-> "ics-1", title |-> "Dentist", date |-> "today+3", allDay |-> FALSE,
             source |-> "ics"]

Feeds == << [ok |-> FALSE, events |-> <<>>], [ok |-> TRUE, events |-> <<IcsEvent>>] >>

Reports == << [ok |-> FALSE],
              [ok |-> TRUE, location |-> "Oslo", summary |-> "Rain", tempF |-> "50F",
               tempC |-> "10C", code |-> 61, forecast |-> <<>>] >>

CalendarBody == [icsUrl |-> "https://cal.example/feed.ics", syncNow |-> TRUE]

WeatherBody == [query |-> "Oslo", syncNow |-> TRUE]

BackgroundBodies == << [clear |-> TRUE], [dataUrl |-> "data:text/plain;base64,AAAA"] >>

CallbackQueries == << [code |-> "oauth-code"],
                      [code |-> "oauth-code", state |-> GarbageAuth],
                      [state |-> GarbageAuth] >>

Exchanges == << [ok |-> FALSE], [ok |-> TRUE, refresh_token |-> ""],
                [ok |-> TRUE, refresh_token |-> "refresh-1"] >>

\* the requests of a paired control client
ControlPaired ==
  \/ PostState(ValidAuth, [note |-> "Dinner at 6"])
  \/ PostToggle(ValidAuth, [module |-> "calendar", enabled |-> TRUE])
  \/ PostLayout(ValidAuth, [layout |-> DefaultLayout])
  \/ GetCalendarSettings(ValidAuth)
  \/ \E f \in DOMAIN Feeds : PostCalendarSettings(ValidAuth, CalendarBody, Feeds[f])
  \/ \E r \in DOMAIN Reports : PostWeatherSettings(ValidAuth, WeatherBody, Reports[r])
  \/ GoogleDisconnect(ValidAuth)
  \/ PostLocalPhotosSettings(ValidAuth, [directory |-> "/photos"])
  \/ \E b \in DOMAIN BackgroundBodies : PostThemeBackground(ValidAuth, BackgroundBodies[b])
  \/ GetGoogleAuth(ValidAuth, NoAuth)
  \/ GetGoogleAuth(NoAuth, ValidAuth)

\* the same requests without a token the server accepts
ControlUnpaired ==
  \E i \in DOMAIN BadAuths :
    LET a == BadAuths[i]
    IN \/ PostState(a, [note |-> "Dinner at 6"])
       \/ PostToggle(a, [module |-> "calendar", enabled |-> FALSE])
       \/ PostLayout(a, [layout |-> LayoutLeft])
       \/ GetCalendarSettings(a)
       \/ PostCalendarSettings(a, CalendarBody, Feeds[2])
       \/ PostWeatherSettings(a, WeatherBody, Reports[2])
       \/ GoogleDisconnect(a)
       \/ PostLocalPhotosSettings(a, [directory |-> "/photos"])
       \/ PostThemeBackground(a, [clear |-> TRUE])
       \/ GetGoogleAuth(NoAuth, a)

ControlNext ==
  \/ ControlPaired
  \/ ControlUnpaired
  \/ \E q \in DOMAIN CallbackQueries : \E x \in DOMAIN Exchanges :
       GetGoogleCallback(CallbackQueries[q], Exchanges[x])

SpecControl == Init /\ [][ControlNext]_vars

\* the last operation was served under /api/control, and not by /api/control/pair
ControlOps == {"POST /api/control/state", "POST /api/control/modules/toggle",
               "POST /api/control/layout", "GET /api/control/calendar/settings",
               "POST /api/control/calendar/settings", "POST /api/control/weather/settings",
               "POST /api/control/photos/google/disconnect",
               "POST /api/control/photos/local/settings",
               "POST /api/control/theme/background", "GET /api/control/photos/google/auth",
               "GET /api/control/photos/google/callback"}

\* the request carries a token the server's secret verifies now, as the bearer
\* header or as the query parameter of a redirect flow
CarriesValidToken ==
  requireAuthFromRequest(server.tokenSecret, req.auth, Nz(req, "token", <<>>), now)

\* C5: an operation under /api/control other than pair whose request carries no valid
\* token answers 401, leaves the state document and every Setting as they were and
\* broadcasts nothing.
C5_WritesNeedToken ==
  (req.op \in ControlOps /\ ~CarriesValidToken) =>
    /\ response.status = 401
    /\ stored = pre.stored
    /\ settings = pre.settings
    /\ bcast = <<>>

(***************************************************************************)
(* SpecAuth: pairing, and tokens presented as the wall clock moves on.     *)
(***************************************************************************)
PairBodies ==
  << [code |-> PairingCode],
     [code |-> <<"k", "7", "m", "p", "2", "q">>],
     [code |-> <<"W", "R", "O", "N", "G">>],
     [code |-> <<"K", "7", "M">>],
     [code |-> <<>>] >>

Jumps == {ThirtyDays - OneDay, ThirtyDays, ThirtyDays + OneDay}

\* what a control client can present: nothing, or a token it was handed
Held == {NoAuth} \cup {<<tok>> : tok \in issued}

AuthNext ==
  \/ \E i \in DOMAIN PairBodies : PostPair(PairBodies[i])
  \/ \E d \in Jumps : Advance(d)
  \/ \E a \in Held : GetCalendarSettings(a)
  \/ \E a \in Held : GetGoogleAuth(NoAuth, a)
  \/ \E a \in Held : PostToggle(a, [module |-> "calendar", enabled |-> TRUE])

SpecAuth == Init /\ [][AuthNext]_vars

OpPair == "POST /api/control/pair"

\* the instant the last operation ran
At == pre.now

Presented(tok) ==
  /\ req.op \in {"GET /api/control/calendar/settings", OpToggle}
  /\ req.auth = <<tok>>

\* C7: a token issued at t is accepted at any time before t + 30 days and answered
\* 401 at any time after t + 30 days.
C7_TokenExpiry ==
  \A tok \in issued :
    Presented(tok) =>
      /\ NumericDate(At) < tok.iat + ThirtyDays => response.status = 200
      /\ NumericDate(At) > tok.iat + ThirtyDays => response.status = 401

C7_Witness ==
  \E tok \in issued :
    /\ Presented(tok)
    /\ NumericDate(At) = tok.iat + ThirtyDays + OneDay
    /\ response.status = 401
    /\ tok.iat > NumericDate(Listening)

(***************************************************************************)
(* SpecSse: displays subscribe, lose their sockets and are closed while a  *)
(* control client writes.                                                  *)
(***************************************************************************)
DeviceIds == {"device-1", "device-2"}

SseNext ==
  \/ \E c \in Conns, d \in DeviceIds : Subscribe(c, d)
  \/ \E c \in Conns : Drop(c)
  \/ \E c \in Conns : CloseEvent(c)
  \/ /\ \A c \in Conns : Len(received[c]) < MaxReceived
     /\ PostToggle(ValidAuth, [module |-> "calendar", enabled |-> TRUE])

SpecSse == Init /\ [][SseNext]_vars

\* the connections the Map reaches
Registered == {c \in Conns : \E i \in DOMAIN clients : c \in Range(sets[clients[i].set])}

\* C8: subscribing with a deviceId other than the server's answers 404 and leaves the
\* registry and the heartbeat timers as they were.
C8_WrongDeviceNotRegistered ==
  (req.op = OpEvents /\ req.deviceId # server.deviceId) =>
    /\ response.status = 404
    /\ clients = pre.clients
    /\ sets = pre.sets
    /\ timers = pre.timers
    /\ received = pre.received

C8_Witness ==
  /\ req.op = OpEvents
  /\ req.deviceId # server.deviceId
  /\ response.status = 404
  /\ pre.clients # <<>>
  /\ Registered # {}

\* C9: when a state event is broadcast to two connections of the same device and the
\* write to one of them fails or raises, the other, whose socket is up, still gets
\* the event, whichever of the two the Set holds first.
C9_BroadcastIsolation ==
  (req.op = OpToggle /\ bcast # <<>>) =>
    \A A \in Registered, B \in Registered :
      (/\ conns[A].set = conns[B].set
       /\ conns[A].status = "broken"
       /\ conns[B].status = "open")
      => received[B] = Append(pre.received[B], StateEvent(bcast[1]))

\* C10: the registry holds exactly the connections that subscribed and whose close
\* event has not been emitted, each once, with a heartbeat timer for each of them
\* and for no other, and no device identity maps to an empty Set.
C10_RegistryExact ==
  /\ Registered = {c \in Conns : conns[c].status \in {"open", "broken"}}
  /\ timers = Registered
  /\ \A i \in DOMAIN clients :
       /\ sets[clients[i].set] # <<>>
       /\ \A j \in DOMAIN clients : clients[i].deviceId = clients[j].deviceId => i = j
       /\ \A m, n \in DOMAIN sets[clients[i].set] :
            sets[clients[i].set][m] = sets[clients[i].set][n] => m = n

C10_Witness ==
  /\ req.op = "close"
  /\ pre.clients # <<>>
  /\ clients = <<>>
  /\ Len(sets) >= 2
  /\ \A c \in Conns : conns[c].status = "closed"

(***************************************************************************)
(* SpecBeat: SpecSse with the keepalive timers firing.  A live interval    *)
(* fires again and again for as long as the event loop runs.               *)
(***************************************************************************)
BeatNext ==
  \/ SseNext
  \/ \E c \in Conns : Heartbeat(c)

SpecBeat == Init /\ [][BeatNext]_vars /\ \A c \in Conns : WF_vars(Heartbeat(c))

Beaten(c) == req.op = "heartbeat" /\ req.conn = c

\* C11: a heartbeat timer is live exactly for the registered connections whose close
\* event has not been emitted; a heartbeat is only ever written to such a connection;
\* and while a connection stays open its heartbeat fires again after whatever else
\* happened, broadcasts included.
C11_HeartbeatLifetime ==
  /\ [](timers = {c \in Conns : conns[c].status \in {"open", "broken"}})
  /\ [](timers = Registered)
  /\ [](\A c \in Conns : Beaten(c) => conns[c].status \in {"open", "broken"})
  /\ \A c \in Conns :
       (conns[c].status = "open") ~> (Beaten(c) \/ conns[c].status # "open")

C11_Witness ==
  \E c \in Conns, d \in Conns :
    /\ Beaten(c)
    /\ req.delivered
    /\ conns[d].status = "closed"
    /\ Len(received[c]) = MaxReceived

\* C12: on every registered connection the "connected" signal is the first thing
\* delivered, and each broadcast adds exactly its one event, once, at the end of
\* what every open connection has been sent so far.
C12_DeliveryOrder ==
  /\ \A c \in Registered : received[c] # <<>> /\ received[c][1] = ":connected"
  /\ (req.op = OpToggle /\ bcast # <<>>) =>
       \A c \in Registered :
         conns[c].status = "open" =>
           received[c] = pre.received[c] \o <<StateEvent(bcast[1])>>

(***************************************************************************)
(* SpecPopups: popups are inserted, updated, cleared and listed while the  *)
(* clock moves on.                                                         *)
(***************************************************************************)
\* popups.id is TEXT
PopupIds == {"p1", "p2"}

\* a popup as its creator builds it at instant t: a temporary one expires
\* durationSeconds after its creation, a manual one never
NewPopup(id, mode, t) ==
  [id |-> id, message |-> "dinner", position |-> "top-right", mode |-> mode,
   priority |-> "success",
   durationSeconds |-> IF mode = "temporary" THEN <<ThirtyDays>> ELSE <<>>,
   visible |-> TRUE,
   createdAt |-> toISOString(t), updatedAt |-> toISOString(t),
   expiresAt |-> IF mode = "temporary"
                 THEN <<toISOString([t EXCEPT !.s = @ + ThirtyDays])>> ELSE <<>>]

\* the popup an editor sends for id: built afresh, createdAt included
EditedPopup(id, visible, t) ==
  [NewPopup(id, "manual", t) EXCEPT !.message = "edited", !.visible = visible]

PopupsNext ==
  \/ \E id \in PopupIds, mode \in {"temporary", "manual"} :
       InsertPopup(NewPopup(id, mode, now))
  \/ \E id \in PopupIds, v \in BOOLEAN : UpdatePopup(EditedPopup(id, v, now))
  \/ ClearPopups
  \/ GetPopups
  \/ Advance(ThirtyDays)

SpecPopups == Init /\ [][PopupsNext]_vars

\* the rows a listing at nowIso has to return
ActiveRows(tbl, nowIso) ==
  {i \in DOMAIN tbl :
     /\ tbl[i].visible = 1
     /\ (tbl[i].expires_at = <<>> \/ IsoLess(nowIso, tbl[i].expires_at[1]))}

\* C13: GET /api/popups answers exactly the popups that are visible and not expired
\* at the instant of the request, each once, oldest createdAt first, and writes
\* nothing.
C13_ListActive ==
  req.op = OpPopups =>
    LET listed == response.body.popups
        nowIso == toISOString(At)
    IN /\ popups = pre.popups
       /\ {listed[i].id : i \in DOMAIN listed}
            = {popups[i].id : i \in ActiveRows(popups, nowIso)}
       /\ Len(listed) = Cardinality(ActiveRows(popups, nowIso))
       /\ \A i \in DOMAIN listed :
            \E j \in DOMAIN popups : listed[i] = mapPopupRow(popups[j])
       /\ \A i, j \in DOMAIN listed :
            i < j => ~IsoLess(listed[j].createdAt, listed[i].createdAt)

\* a visible popup whose expiresAt has passed is stored, untouched, and not listed
C13_Witness ==
  /\ req.op = OpPopups
  /\ Len(response.body.popups) = 1
  /\ \E i \in DOMAIN popups :
       /\ popups[i].visible = 1
       /\ popups[i].expires_at # <<>>
       /\ IsoLess(popups[i].expires_at[1], toISOString(At))
       /\ popups[i].updated_at = popups[i].created_at

\* the instants the clock of SpecPopups can show, and the one before them
Instants ==
  {Epoch} \cup {[Listening EXCEPT !.s = @ + k * ThirtyDays] : k \in 0..(MaxJumps + 1)}

\* C14: from a clearPopups until the next insert or update, a listing at any instant
\* is empty, and the table holds the rows it held before the clear, same ids, every
\* one with visible = 0.
C14_ClearIsSoftDelete ==
  req.op = "clearPopups" =>
    /\ [i \in DOMAIN popups |-> popups[i].id] = [i \in DOMAIN pre.popups |-> pre.popups[i].id]
    /\ \A i \in DOMAIN popups : popups[i].visible = 0
    /\ listActivePopups(popups, toISOString(now)) = <<>>
    /\ \A t \in Instants : listActivePopups(popups, toISOString(t)) = <<>>

C14_Witness ==
  /\ req.op = "clearPopups"
  /\ Len(popups) = Cardinality(PopupIds)
  /\ listActivePopups(pre.popups, toISOString(At)) # <<>>
  /\ \E i \in DOMAIN pre.popups : pre.popups[i].expires_at = <<>> /\ pre.popups[i].visible = 1
  /\ now # At

\* C15: no insertPopup, updatePopup or clearPopups changes the created_at of a row
\* already stored or removes the row; an inserted row has the createdAt it was given;
\* and updatePopup leaves every row but the one with its id as it was.
C15_CreatedAtImmutable ==
  req.op \in {"insertPopup", "updatePopup", "clearPopups"} =>
    /\ \A i \in DOMAIN pre.popups :
         /\ i \in DOMAIN popups
         /\ popups[i].id = pre.popups[i].id
         /\ popups[i].created_at = pre.popups[i].created_at
    /\ req.op = "updatePopup" =>
         /\ Len(popups) = Len(pre.popups)
         /\ \A i \in DOMAIN pre.popups :
              pre.popups[i].id # req.popup.id => popups[i] = pre.popups[i]
    /\ (req.op = "insertPopup" /\ ~response.body.raised) =>
         /\ Len(popups) = Len(pre.popups) + 1
         /\ popups[Len(popups)].created_at = req.popup.createdAt

C15_Witness ==
  /\ req.op = "updatePopup"
  /\ Len(popups) = Cardinality(PopupIds)
  /\ \E i \in DOMAIN popups :
       /\ popups[i].id = req.popup.id
       /\ popups[i] # pre.popups[i]
       /\ popups[i].created_at # req.popup.createdAt
       /\ popups[i].updated_at = req.popup.updatedAt

(***************************************************************************)
(* SpecDefaults: the server finds a state document written by an earlier   *)
(* version, with fields and sub-fields missing, and normalises it.         *)
(***************************************************************************)
Without(o, keys) == [k \in DOMAIN o \ keys |-> o[k]]

\* top-level fields an older document may lack
DropKeys == {"events", "photosGoogle", "layout", "customTheme", "updatedAt", "weather"}

\* nested objects as an older document may hold them
OlderShapes ==
  << Empty,
     [modules |-> [photos |-> FALSE]],
     [customTheme |-> [bg |-> "#FFFFFF"]],
     [offSchedule |-> [enabled |-> TRUE]],
     [photoSources |-> [google |-> FALSE]],
     [weather |-> [temp |-> "50F"]],
     [layout |-> [mode |-> "classic"]],
     [layout |-> [modules |-> [calendar |-> [column |-> "right"]]]],
     [events |-> << [id |-> "uuid-9", title |-> "Dentist", date |-> "today+3"] >>] >>

OlderDoc(i, drop) ==
  LET seeded == createDefaultState(Epoch)
      kept == Without(seeded, drop)
  IN [k \in DOMAIN kept \cup (DOMAIN OlderShapes[i] \ drop) |->
        IF k \in DOMAIN OlderShapes[i] THEN OlderShapes[i][k] ELSE kept[k]]

\* boot finds a state row, and leaves it as it is
InitDefaults ==
  \E i \in DOMAIN OlderShapes, drop \in SUBSET DropKeys : Booted(saveState(OlderDoc(i, drop)))

DefaultsNext ==
  \/ GetState
  \/ TickMs

SpecDefaults == InitDefaults /\ [][DefaultsNext]_vars

\* ensureStateDefaults with the TypeError it can raise as a value
normalised(doc, t) ==
  IF ensureStateDefaultsThrows(doc) THEN [raised |-> "TypeError"]
  ELSE ensureStateDefaults(doc, t)

NestedKeys == {"modules", "customTheme", "offSchedule", "photoSources", "weather"}

\* doc has every field of the default document, at every level
Complete(doc) ==
  LET defaults == createDefaultState(Epoch)
  IN /\ DOMAIN defaults \subseteq DOMAIN doc
     /\ \A n \in NestedKeys : DOMAIN defaults[n] \subseteq DOMAIN doc[n]
     /\ DOMAIN defaults.layout \subseteq DOMAIN doc.layout
     /\ \A m \in DOMAIN defaults.layout.modules :
          /\ m \in DOMAIN doc.layout.modules
          /\ DOMAIN defaults.layout.modules[m] \subseteq DOMAIN doc.layout.modules[m]
     /\ \A i \in DOMAIN doc.events : Has(doc.events[i], "source")

\* every field of small is a field of big, with the same value
Holds(small, big) == \A k \in DOMAIN small : k \in DOMAIN big /\ big[k] = small[k]

\* doc holds every value old held, at every level
Overlays(doc, old) ==
  \A k \in DOMAIN old \ {"events"} :
    IF k \in NestedKeys THEN Holds(old[k], doc[k])
    ELSE IF k = "layout"
      THEN /\ Holds(Without(old.layout, {"modules"}), doc.layout)
           /\ Has(old.layout, "modules") =>
                \A m \in DOMAIN old.layout.modules :
                  Holds(old.layout.modules[m], doc.layout.modules[m])
    ELSE doc[k] = old[k]

\* C17: for every stored document, GET /api/state answers a complete document: every
\* field of the default document at every level of every known nested object, the
\* stored value wherever there was one, and a `source` on every event.
C17_DefaultsComplete ==
  (req.op = OpGetState /\ pre.stored # <<>>) =>
    /\ response.status = 200
    /\ Complete(response.body.state)
    /\ Overlays(response.body.state, pre.stored[1])

(***************************************************************************)
(* SpecSync: the calendar and weather schedulers run, over documents of    *)
(* every older shape that has an `events` array, while a control client    *)
(* configures the sources and a display reads the state.                   *)
(***************************************************************************)
InitSync == \E i \in DOMAIN OlderShapes : Booted(saveState(OlderDoc(i, {})))

\* a second feed answer, other events than the first
IcsEventLater == [IcsEvent EXCEPT !.id = "ics-2", !.title = "Recital"]

FeedsOverTime == Feeds \o << [ok |-> TRUE, events |-> <<IcsEventLater>>] >>

SyncNext ==
  \/ \E i \in DOMAIN FeedsOverTime : CalendarSyncRun(FeedsOverTime[i])
  \/ \E i \in DOMAIN Reports : WeatherSyncRun(Reports[i])
  \/ PostCalendarSettings(ValidAuth, [icsUrl |-> CalendarBody.icsUrl], Feeds[1])
  \/ PostWeatherSettings(ValidAuth, [query |-> WeatherBody.query], Reports[1])
  \/ GetState
  \/ TickMs

SpecSync == InitSync /\ [][SyncNext]_vars

\* the events of a stored list that are the user's own: source "manual" or no source
UserOwned(events) ==
  SelectSeq(events, LAMBDA e : ~Has(e, "source") \/ e.source = "manual")

Imported(events) ==
  SelectSeq(events, LAMBDA e : Has(e, "source") /\ e.source # "manual")

\* C18: after a calendar resync that stored a document, the user's own events of the
\* document stored before, those without a `source` included, are all there,
\* unchanged, and the imported events are exactly the ones of this run's feed.
C18_ResyncKeepsManual ==
  (req.op = OpCalendarRun /\ bcast # <<>>) =>
    /\ UserOwned(stored[1].events) = UserOwned(pre.stored[1].events)
    /\ Imported(stored[1].events) = req.feed.events

OpRuns == {OpCalendarRun, OpWeatherRun}

\* C19: a scheduler run whose fetch fails leaves the stored document as it was,
\* broadcasts nothing and lets nothing escape, and the next run can still happen;
\* a run with no source configured fetches nothing, saves nothing and broadcasts
\* nothing.
C19_FailedRunIsSkipped ==
  (req.op \in OpRuns /\ (~req.configured \/ ~req.feed.ok)) =>
    /\ stored = pre.stored
    /\ bcast = <<>>
    /\ received = pre.received
    /\ ~response.body.escaped
    /\ ~req.configured => ~response.body.fetched
    /\ ENABLED (\E i \in DOMAIN FeedsOverTime : CalendarSyncRun(FeedsOverTime[i]))
    /\ ENABLED (\E i \in DOMAIN Reports : WeatherSyncRun(Reports[i]))

\* a failed fetch after an earlier run had stored imported events: they stay
C19_Witness ==
  /\ req.op = OpCalendarRun
  /\ req.configured
  /\ ~req.feed.ok
  /\ response.body.fetched
  /\ Imported(stored[1].events) # <<>>
  /\ stored = pre.stored

(***************************************************************************)
(* SpecMissing: the state table has no row when requests arrive (the row   *)
(* was removed from the database file under the running server).           *)
(***************************************************************************)
InitMissing == Booted(<<>>)

Listings == << [exists |-> FALSE, urls |-> <<>>],
               [exists |-> TRUE, urls |-> <<"/api/photos/local?path=a.jpg">>] >>

ScanBody == [directory |-> "/photos"]

MissingNext ==
  \/ \E i \in DOMAIN RawUpdates : PostState(ValidAuth, RawUpdates[i])
  \/ PostToggle(ValidAuth, [module |-> "calendar", enabled |-> FALSE])
  \/ PostLayout(ValidAuth, [layout |-> LayoutLeft])
  \/ \E i \in DOMAIN BackgroundBodies : PostThemeBackground(ValidAuth, BackgroundBodies[i])
  \/ PostCalendarSettings(ValidAuth, CalendarBody, Feeds[2])
  \/ PostWeatherSettings(ValidAuth, WeatherBody, Reports[2])
  \/ \E i \in DOMAIN Listings : PostLocalScan(ValidAuth, ScanBody, Listings[i])
  \/ TickMs

SpecMissing == InitMissing /\ [][MissingNext]_vars

MutationOps == {OpState, OpToggle, OpLayout, "POST /api/control/theme/background",
                "POST /api/control/calendar/settings",
                "POST /api/control/weather/settings", OpLocalScan}

InvalidUpdates ==
  << [theme |-> "neon"],
     [note |-> "Dinner at 6", calendarView |-> "day"],
     [customTheme |-> [bg |-> "#FFFFFF"]],
     [photoSources |-> [google |-> FALSE]],
     [layout |-> [mode |-> "classic", sidebar |-> "left"]],
     [events |-> << [id |-> "uuid-9", title |-> "", date |-> "today+3", allDay |-> TRUE] >>] >>

\* payloads toggleModuleSchema rejects
InvalidToggles ==
  << Empty, [module |-> "calendar"], [module |-> "clock", enabled |-> FALSE] >>

\* payloads layoutUpdateSchema rejects
InvalidLayouts ==
  << Empty,
     [layout |-> [DefaultLayout EXCEPT !.mode = "grid"]],
     [layout |-> [LayoutLeft EXCEPT !.modules.note.span = 4]] >>

InvalidNext ==
  \/ \E c \in Conns : Subscribe(c, server.deviceId)
  \/ \E i \in DOMAIN InvalidUpdates : PostState(ValidAuth, InvalidUpdates[i])
  \/ \E i \in DOMAIN InvalidToggles : PostToggle(ValidAuth, InvalidToggles[i])
  \/ \E i \in DOMAIN InvalidLayouts : PostLayout(ValidAuth, InvalidLayouts[i])
  \/ /\ \A c \in Conns : Len(received[c]) < MaxReceived
     /\ \/ PostState(ValidAuth, [note |-> "Dinner at 6"])
        \/ PostToggle(ValidAuth, [module |-> "photos", enabled |-> FALSE])
  \/ TickMs

SpecInvalid == Init /\ [][InvalidNext]_vars

\* the last operation was an authenticated state write whose payload its schema rejects
InvalidWrite ==
  /\ req.op \in {OpState, OpToggle, OpLayout}
  /\ requireAuth(server.tokenSecret, req.auth, At)
  /\ \/ req.op = OpState /\ ~stateUpdateSchemaOk(req.body)
     \/ req.op = OpToggle /\ ~toggleModuleSchemaOk(req.body)
     \/ req.op = OpLayout /\ ~layoutUpdateSchemaOk(req.body)

\* C21: an authenticated POST /api/control/state, /modules/toggle or /layout whose
\* payload fails its schema is refused: the stored document is the one stored before
\* the request, nothing is handed to broadcastAll and no connection is written to.
C21_InvalidPayloadRejected ==
  InvalidWrite =>
    /\ response.status # 200
    /\ stored = pre.stored
    /\ bcast = <<>>
    /\ received = pre.received

\* an invalid payload after valid writes, with a display subscribed: the field the
\* payload names keeps the value the valid write stored
C21_Witness ==
  /\ InvalidWrite
  /\ req.op = OpState
  /\ Has(req.body, "note")
  /\ stored[1].note = "Dinner is at 6:30. Movie night after!"
  /\ stored[1].modules.photos = FALSE
  /\ \E c \in Conns : conns[c].status = "open" /\ Len(received[c]) >= 2

(***************************************************************************)
(* SpecWrites: control writes and scheduler runs store documents while     *)
(* displays subscribe, lose their sockets and are closed.                  *)
(***************************************************************************)
WritesNext ==
  \/ \E c \in Conns : Subscribe(c, server.deviceId)
  \/ \E c \in Conns : Drop(c)
  \/ \E c \in Conns : CloseEvent(c)
  \/ PostCalendarSettings(ValidAuth, [icsUrl |-> CalendarBody.icsUrl], Feeds[1])
  \/ PostState(NoAuth, [note |-> "Dinner at 6"])
  \/ PostState(ValidAuth, InvalidUpdates[1])
  \/ /\ \A c \in Conns : Len(received[c]) < MaxReceived
     /\ \/ PostState(ValidAuth, [note |-> "Dinner at 6"])
        \/ PostToggle(ValidAuth, [module |-> "calendar", enabled |-> FALSE])
        \/ PostLayout(ValidAuth, [layout |-> LayoutLeft])
        \/ \E i \in DOMAIN Feeds : CalendarSyncRun(Feeds[i])
        \/ WeatherSyncRun(Reports[2])

SpecWrites == Init /\ [][WritesNext]_vars

StateWriteOps == {OpState, OpToggle, OpLayout, OpCalendarRun, OpWeatherRun}

\* the last operation was a successful state write: a control write answered 200, or
\* a scheduler run that saved the document it synced
SuccessfulWrite ==
  \/ req.op \in {OpState, OpToggle, OpLayout} /\ response.status = 200
  \/ req.op \in OpRuns /\ bcast # <<>>

\* C22: after a successful state write the stored document is the one handed to
\* broadcastAll, a control write's response carries it, and every registered
\* connection whose socket is up has had exactly it appended as a state event; a
\* state write or scheduler run that saved nothing writes to no connection.
C22_SaveThenBroadcast ==
  /\ SuccessfulWrite =>
       /\ bcast # <<>>
       /\ stored = saveState(bcast[1])
       /\ req.op \notin OpRuns => response.body = stored[1]
       /\ \A c \in Registered :
            conns[c].status = "open" =>
              received[c] = Append(pre.received[c], StateEvent(stored[1]))
  /\ (req.op \in StateWriteOps /\ bcast = <<>>) =>
       (stored = pre.stored /\ received = pre.received)

(***************************************************************************)
(* SpecReboot: the server is stopped and booted again over its store, with *)
(* or without a TOKEN_SECRET in the environment, while control clients     *)
(* pair and present the tokens they hold, sources are configured and the   *)
(* schedulers run.                                                         *)
(***************************************************************************)
\* env.TOKEN_SECRET: not set, empty, the secret in use, another one
SuppliedSecrets == {<<>>, <<"">>, <<"secret-1">>, <<"secret-2">>}

RebootNext ==
  \/ \E s \in SuppliedSecrets : Boot(s)
  \/ PostPair([code |-> PairingCode])
  \/ \E a \in Held : GetCalendarSettings(a)
  \/ \E a \in Held : PostToggle(a, [module |-> "calendar", enabled |-> FALSE])
  \/ PostCalendarSettings(ValidAuth, [icsUrl |-> CalendarBody.icsUrl], Feeds[1])
  \/ GoogleDisconnect(ValidAuth)
  \/ CalendarSyncRun(Feeds[2])
  \/ GetState
  \/ TickMs

SpecReboot == Init /\ [][RebootNext]_vars

\* the process was booted with a TOKEN_SECRET in its environment
SecretSupplied == server.supplied # <<>> /\ server.supplied[1] # ""

\* C23: a server booted with a TOKEN_SECRET signs and verifies with it: the token a
\* pairing answers verifies under the supplied secret, and a token that was signed
\* under another secret is answered 401.
C23_SuppliedSecretRules ==
  SecretSupplied =>
    /\ server.tokenSecret = server.supplied[1]
    /\ (req.op = OpPair /\ response.status = 200) =>
         verifyTokenOk(server.supplied[1], response.body.token, At)
    /\ \A tok \in issued :
         (Presented(tok) /\ tok.secret # server.supplied[1]) => response.status = 401


\* C24: no boot, request or scheduler run changes the stored pairing code or the
\* stored device identity, which are the ones the first boot stored; and a boot that
\* finds a state document leaves the state table as it was.
C24_BootIdempotent ==
  /\ \A key \in {"pairingCode", "deviceId"} :
       /\ Has(settings, key)
       /\ settings[key] = BootSettings[key]
       /\ Has(pre.settings, key) => settings[key] = pre.settings[key]
  /\ server.deviceId = settings.deviceId
  /\ (req.op = "boot" /\ pre.stored # <<>>) => stored = pre.stored

\* a second boot, over a document that writes and a sync have changed and settings
\* that requests have added to
C24_Witness ==
  /\ req.op = "boot"
  /\ pre.stored # <<>>
  /\ stored[1].modules.calendar = FALSE
  /\ Imported(stored[1].events) # <<>>
  /\ Has(settings, IcsFeedKey) /\ Has(settings, RefreshTokenKey)
  /\ req.supplied = <<"secret-2">>
  /\ pre.now # Listening

(***************************************************************************)
(* SpecReshow: popups are inserted, cleared and shown again with the       *)
(* columns the store holds for them.                                       *)
(***************************************************************************)
\* the popup an editor sends to show a stored row again: what the store holds for
\* it, visible, updated at t
ReshownPopup(row, t) ==
  [mapPopupRow(row) EXCEPT !.visible = TRUE, !.updatedAt = toISOString(t)]

ReshowNext ==
  \/ \E id \in PopupIds, mode \in {"temporary", "manual"} :
       InsertPopup(NewPopup(id, mode, now))
  \/ \E i \in DOMAIN popups : UpdatePopup(ReshownPopup(popups[i], now))
  \/ ClearPopups
  \/ GetPopups
  \/ TickMs

SpecReshow == Init /\ [][ReshowNext]_vars

\* C27: clearPopups changes only `visible` (to 0) and `updated_at` (to the instant of
\* the clear) of each row and leaves every other column, expires_at included, as it
\* was; so a manual popup (expires_at NULL), shown again with what the store holds
\* for it, is listed again.
C27_ClearFrame ==
  /\ req.op = "clearPopups" =>
       popups = [i \in DOMAIN pre.popups |->
                   [pre.popups[i] EXCEPT !.visible = 0, !.updated_at = toISOString(At)]]
  /\ (req.op = "updatePopup" /\ req.popup.mode = "manual" /\ req.popup.visible) =>
       \A i \in DOMAIN popups :
         popups[i].id = req.popup.id =>
           /\ popups[i].expires_at = <<>>
           /\ \E j \in DOMAIN listActivePopups(popups, toISOString(now)) :
                listActivePopups(popups, toISOString(now))[j].id = req.popup.id

(***************************************************************************)
(* SpecRace: two control writes that touch different fields are served at  *)
(* once, with a display subscribed.                                        *)
(***************************************************************************)
NoteBody == [note |-> "Dinner at 6"]
ToggleBody == [module |-> "calendar", enabled |-> FALSE]

RaceNext ==
  \/ \E c \in Conns : Subscribe(c, server.deviceId)
  \/ Accept("f1", OpState, ValidAuth, NoteBody)
  \/ Accept("f2", OpToggle, ValidAuth, ToggleBody)
  \/ \E f \in FlightIds : Load(f)
  \/ \E f \in FlightIds : Save(f)
  \/ \E f \in FlightIds : Finish(f)
  \/ TickMs

SpecRace == Init /\ [][RaceNext]_vars

\* the flight is a control write that was answered 200
Written(f) ==
  /\ flights[f].op \in {OpState, OpToggle}
  /\ flights[f].stage = "done"
  /\ flights[f].answer.status = 200

\* doc has what the control write of flight f set
Applied(f, doc) ==
  IF flights[f].op = OpState
  THEN \A k \in DOMAIN flights[f].body : doc[k] = flights[f].body[k]
  ELSE doc.modules[flights[f].body.module] = flights[f].body.enabled

\* C25: when two control writes that touch different fields have both completed,
\* however their load and save steps were interleaved, the stored document has the
\* changes of both.
C25_NoLostUpdate ==
  (\A f \in FlightIds : Written(f)) => \A f \in FlightIds : Applied(f, stored[1])

(***************************************************************************)
(* SpecWeatherRace: a scheduler weather run and a control write are served *)
(* at once.                                                                *)
(***************************************************************************)
WeatherRaceNext ==
  \/ PostWeatherSettings(ValidAuth, [query |-> WeatherBody.query], Reports[1])
  \/ \E c \in Conns : Subscribe(c, server.deviceId)
  \/ AcceptWeatherRun("f1")
  \/ Accept("f2", OpState, ValidAuth, NoteBody)
  \/ \E f \in FlightIds : Load(f)
  \/ \E i \in DOMAIN Reports : Fetched("f1", Reports[i])
  \/ \E f \in FlightIds : Save(f)
  \/ \E f \in FlightIds : Finish(f)
  \/ TickMs

SpecWeatherRace == Init /\ [][WeatherRaceNext]_vars

\* the flight is a weather sync that has saved its document
Synced(f) ==
  /\ flights[f].op = OpWeatherRun
  /\ flights[f].stage \in {"saved", "done"}
  /\ flights[f].next # <<>>

\* C26: the save of a weather sync changes only weather, forecast and updatedAt of the
\* document stored at that moment, so that once a weather sync has saved and a control
\* write has completed, in whatever order, the stored document has what the control
\* write set.
C26_WeatherSyncFrame ==
  /\ (req.op = "step" /\ req.of = OpWeatherRun /\ req.stage = "saved") =>
       \A k \in (DOMAIN pre.stored[1]) \ {"weather", "forecast", "updatedAt"} :
         k \in DOMAIN stored[1] /\ stored[1][k] = pre.stored[1][k]
  /\ \A f \in FlightIds, g \in FlightIds :
       (Synced(f) /\ Written(g)) => Applied(g, stored[1])

(***************************************************************************)
(* SpecStateRace: GET /api/state finds a document of an older shape and    *)
(* normalises it while a control write is served.                          *)
(***************************************************************************)
StateRaceNext ==
  \/ AcceptGetState("f1", "client")
  \/ Accept("f2", OpState, ValidAuth, NoteBody)
  \/ \E f \in FlightIds : Load(f)
  \/ \E f \in FlightIds : Save(f)
  \/ \E f \in FlightIds : Finish(f)
  \/ TickMs

SpecStateRace == InitSync /\ [][StateRaceNext]_vars

\* the flight is a GET /api/state that was answered
Normalised(f) == flights[f].op = OpGetState /\ flights[f].stage = "done"

\* C30: the save of GET /api/state keeps the value of every field the stored document
\* has at that moment, and once a GET /api/state has been answered and a control write
\* has completed, in whatever order, the stored document has what the control write
\* set.
C30_GetStateOnlyAdds ==
  /\ (req.op = "step" /\ req.of = OpGetState /\ req.stage = "saved" /\ pre.stored # <<>>) =>
       Overlays(stored[1], pre.stored[1])
  /\ \A f \in FlightIds, g \in FlightIds :
       (Normalised(f) /\ Written(g)) => Applied(g, stored[1])

(***************************************************************************)
(* SpecDisplay: the display app is opened, loads the document with         *)
(* GET /api/state, pairs and subscribes, while a control write is served.  *)
(***************************************************************************)
Remembered == {<<>>, <<"device-1">>, <<"device-2">>}

DisplayNext ==
  \/ \E fromUrl \in Remembered, localStorage \in Remembered : Mount(fromUrl, localStorage)
  \/ AcceptGetState("f1", "display")
  \/ Accept("f2", OpState, ValidAuth, NoteBody)
  \/ \E f \in FlightIds : Load(f)
  \/ \E f \in FlightIds : Save(f)
  \/ \E f \in FlightIds : Finish(f)
  \/ DisplayFetched
  \/ DisplayPair
  \/ DisplaySubscribe
  \/ DisplayOnState
  \/ TickMs

SpecDisplay == Init /\ [][DisplayNext]_vars

\* GET /api/state has answered the display with an identity other than the one the
\* display remembered
Mismatch ==
  /\ display.fetch = "done"
  /\ display.deviceId # <<>>
  /\ display.remembered # <<>>
  /\ display.remembered[1] # display.deviceId[1]

\* no EventSource is open under the remembered identity
NoStaleSubscription ==
  Mismatch => (display.source = <<>> \/ display.source[1].id # display.remembered[1])

\* C28: once GET /api/state has returned an identity that differs from the remembered
\* one (from the URL or from local storage), the display shows the error and has no
\* event-stream subscription under the remembered identity.
C28_MismatchSurfaced ==
  Mismatch => (Screen(display) = "error" /\ NoStaleSubscription)

\* every request and run that was started has completed
FlightsDone == \A f \in FlightIds : flights[f].stage \in {"idle", "done"}

\* on every open connection that was sent a `state` event, the last one carries the
\* stored document
LastEventIsStored ==
  \A c \in DOMAIN conns :
    (conns[c].status = "open" /\ Len(received[c]) > 1) =>
      received[c][Len(received[c])] = StateEvent(stored[1])

\* the display has loaded the document, its EventSource is connected and it has
\* handled everything the server wrote to it
DisplaySettled ==
  /\ display.fetch = "done"
  /\ display.error = <<>>
  /\ display.source # <<>>
  /\ conns[display.source[1].conn].status = "open"
  /\ display.seen = Len(received[display.source[1].conn])

\* C29: once every started write has completed, the last `state` event on each open
\* connection is the stored document, and a display that has loaded the document with
\* GET /api/state and subscribed holds the stored document.
C29_DisplayConverges ==
  FlightsDone =>
    /\ LastEventIsStored
    /\ DisplaySettled => display.state = <<stored[1]>>
====
